---- MODULE Spec2Model ----
(***************************************************************************)
(* workhive: saved network profiles, the credential cipher, the encrypted  *)
(* export/import pipeline and the configuration stores.                    *)
(*                                                                         *)
(* Strings that the code splits, joins, sanitises or encodes are sequences *)
(* of character codes (ASCII / Unicode code points); byte buffers are      *)
(* sequences of 0..255.  Identifiers that the code only compares are TLA+  *)
(* strings.                                                                *)
(***************************************************************************)
EXTENDS Integers, Sequences, FiniteSets, TLC

VARIABLES
    \* ---- credential cipher exercised as a pure function ----
    cText,      \* plaintext handed to encrypt
    cKey,       \* master key of the encrypting call
    cToken,     \* token handed to decrypt
    cDecKey,    \* master key of the decrypting call
    cResult,    \* what decrypt returned or threw
    cOrigin,    \* how cToken came about: "none" | "encrypt" | "junk" | "flip" |
                \* "segments" | "foreign"
    cPc         \* "fresh" | "token" | "decrypted"

cipherVars == <<cText, cKey, cToken, cDecKey, cResult, cOrigin, cPc>>

VARIABLES
    \* ---- one device: files, and the process that runs the operations ----
    configDir,    \* ~/.wifi_configs/*.json: file id -> parsed content
    keyFile,      \* ~/.wifi_key: "absent", "empty" (created, not yet written) or a key
    masterKey,    \* EncryptionUtil.masterKey of the running process, "null" before init
    initCount,    \* how often init() loaded or generated a key in this process
    expPc,        \* "idle" | "running": exportNetworkConfigs between its awaits
    expList,      \* what listConfigs returned to the export
    expTasks,     \* one encrypt task per listed entry
    exportFile,   \* the envelope last written by exportNetworkConfigs
    wgConf,       \* /etc/wireguard/wg0.conf
    wgExport,     \* the envelope last written by exportWireGuardConfig
    impResult,    \* what importNetworkConfigs returned last
    impLog,       \* ids for which the import logged a decryption failure
    exports,      \* exportNetworkConfigs calls so far
    moves,        \* how often the export files were carried to another device
    lastOp        \* the operation that completed last

pipeVars == <<configDir, keyFile, masterKey, initCount, expPc, expList, expTasks,
              exportFile, wgConf, wgExport, impResult, impLog, exports, moves, lastOp>>

VARIABLES
    \* ---- ~/.wifi_configs/*.conf as workhive.sh keeps them ----
    shDir,        \* config id -> the variables the file sets
    shRuns,       \* handle_setup runs so far, also the clock of CREATED_DATE
    shLast,       \* what the last run of the script did
    shNet         \* the last run's dealings with nmcli: the id it was asked to
                  \* activate and the SSID it issued a connect for

shVars == <<shDir, shRuns, shLast, shNet>>

VARIABLES
    stBefore,     \* the directory as it was when deduplicateConfigs, if it ran last, started
    stListed,     \* what the last call of listConfigs returned
    osProfiles,   \* NetworkManager connection profiles: name -> profile
    osBefore,     \* the profiles as they were when the last OS pass started
    osLast        \* which build of deduplicateNetworkProfiles ran last

storeVars == <<stBefore, stListed>>
osVars == <<osProfiles, osBefore, osLast>>

VARIABLES
    \* ---- importNetworkConfigs handed a file of any content ----
    envelope,       \* what JSON.parse makes of the file, or that it cannot be read
    envUnwritable,  \* the ids for which saveConfig rejected in the last import
    envBefore       \* the directory as it was when the last import started

envVars == <<envelope, envUnwritable, envBefore>>

VARIABLES
    \* ---- the tunnel: /etc/wireguard, wg-quick@wg0 and the wg0 interface ----
    wgFiles,      \* /etc/wireguard/<name>.conf: name -> the fields written into it
    wgEnabled,    \* systemctl is-enabled wg-quick@wg0
    wgActive,     \* systemctl is-active wg-quick@wg0
    wgIface,      \* the wg0 interface exists
    wgLast        \* the tunnel operation that ran last, what it returned and
                  \* the state it started from

wgVars == <<wgFiles, wgEnabled, wgActive, wgIface, wgLast>>

VARIABLES
    \* ---- getStatus exercised as a pure function ----
    wgOutput,     \* stdout of "wg show wg0", or that the command failed
    wgStatus,     \* what getStatus returned
    stPc          \* "fresh" | "done"

statVars == <<wgOutput, wgStatus, stPc>>

VARIABLES
    \* ---- NetworkControl.getStatus exercised as a pure function ----
    nsTable,      \* stdout of "nmcli device status", line by line
    nsFail,       \* the commands that fail during the call
    nsStatus,     \* what getStatus returned
    nsProbes,     \* the commands the call ran
    nsLast        \* "none" | which build of getStatus ran

netVars == <<nsTable, nsFail, nsStatus, nsProbes, nsLast>>

vars == <<cipherVars, pipeVars, shVars, storeVars, osVars, envVars, wgVars, statVars, netVars>>

----------------------------------------------------------------------------
(* Sequence helpers *)

RECURSIVE SumRange(_, _, _)
\* s[lo] + ... + s[hi], by halving
SumRange(s, lo, hi) ==
    IF lo > hi THEN 0
    ELSE IF lo = hi THEN s[lo]
    ELSE LET mid == (lo + hi) \div 2
         IN  SumRange(s, lo, mid) + SumRange(s, mid + 1, hi)

SumSeq(s) == SumRange(s, 1, Len(s))

\* position-dependent checksum: sum of i * s[i]
WeightedSum(s) == SumSeq([i \in 1..Len(s) |-> i * s[i]])

Min(S) == CHOOSE x \in S : \A y \in S : x <= y

Fill(n, v) == [i \in 1..n |-> v]

----------------------------------------------------------------------------
(* Character codes *)

ChColon == 58
ChEquals == 61
ChUnderscore == 95
ChSpace == 32

\* String.prototype.split(sep) for a one-character separator: the pieces
\* between consecutive separators, empty pieces kept
Split(s, sep) ==
    LET seps == {i \in 1..Len(s) : s[i] = sep}
        \* position of the k-th separator; 0 before the first, Len(s)+1 after the last
        Pos(k) == IF k = 0 THEN 0
                  ELSE IF k > Cardinality(seps) THEN Len(s) + 1
                  ELSE CHOOSE i \in seps : Cardinality({j \in seps : j < i}) = k - 1
    IN  [k \in 1..(Cardinality(seps) + 1) |-> SubSeq(s, Pos(k - 1) + 1, Pos(k) - 1)]

\* Array.prototype.join(sep)
RECURSIVE Join(_, _)
Join(parts, sep) ==
    IF parts = <<>> THEN <<>>
    ELSE IF Len(parts) = 1 THEN parts[1]
    ELSE parts[1] \o <<sep>> \o Join(Tail(parts), sep)

----------------------------------------------------------------------------
(* base64, as Node's Buffer implements it *)

\* the base64 alphabet: A-Z a-z 0-9 + /
B64Char(v) ==
    IF v < 26 THEN 65 + v
    ELSE IF v < 52 THEN 97 + (v - 26)
    ELSE IF v < 62 THEN 48 + (v - 52)
    ELSE IF v = 62 THEN 43 ELSE 47

\* inverse of the alphabet; -1 for a character outside it
Unbase64(c) ==
    IF c >= 65 /\ c <= 90 THEN c - 65
    ELSE IF c >= 97 /\ c <= 122 THEN c - 97 + 26
    ELSE IF c >= 48 /\ c <= 57 THEN c - 48 + 52
    ELSE IF c = 43 THEN 62
    ELSE IF c = 47 THEN 63
    ELSE -1

\* buf.toString('base64'): three bytes to four characters, '=' padded
Base64Encode(b) ==
    LET n == Len(b)
        At(i) == IF i <= n THEN b[i] ELSE 0
        Ch(j) ==
            LET g == 3 * ((j - 1) \div 4)
                pos == (j - 1) % 4
            IN  IF pos = 0 THEN B64Char(At(g + 1) \div 4)
                ELSE IF pos = 1 THEN B64Char((At(g + 1) % 4) * 16 + (At(g + 2) \div 16))
                ELSE IF pos = 2 THEN
                    (IF g + 2 > n THEN ChEquals
                     ELSE B64Char((At(g + 2) % 16) * 4 + (At(g + 3) \div 64)))
                ELSE (IF g + 3 > n THEN ChEquals ELSE B64Char(At(g + 3) % 64))
    IN  [j \in 1..(4 * ((n + 2) \div 3)) |-> Ch(j)]

\* the forgiving decoder: '=' ends the input, a character outside the
\* alphabet is skipped
Sextets(s) ==
    LET pads == {i \in 1..Len(s) : s[i] = ChEquals}
        upto == IF pads = {} THEN Len(s) ELSE Min(pads) - 1
        legal == SelectSeq(SubSeq(s, 1, upto), LAMBDA c : Unbase64(c) >= 0)
    IN  [i \in 1..Len(legal) |-> Unbase64(legal[i])]

\* four sextets to three bytes; a trailing 2 or 3 sextets give 1 or 2 bytes
SextetsToBytes(x) ==
    LET Byte(i) ==
            LET q == (((i - 1) * 8) \div 6) + 1
                r == ((i - 1) * 8) % 6
            IN  IF r = 0 THEN x[q] * 4 + (x[q + 1] \div 16)
                ELSE IF r = 2 THEN (x[q] % 16) * 16 + (x[q + 1] \div 4)
                ELSE (x[q] % 4) * 64 + x[q + 1]
    IN  [i \in 1..((Len(x) * 6) \div 8) |-> Byte(i)]

\* Buffer.from(s, 'base64'): never throws
Base64Decode(s) == SextetsToBytes(Sextets(s))

----------------------------------------------------------------------------
(* UTF-8, for code points below 0x800 *)

ReplacementChar == 65533

RECURSIVE Utf8Encode(_)
Utf8Encode(t) ==
    IF t = <<>> THEN <<>>
    ELSE (IF Head(t) < 128 THEN <<Head(t)>>
          ELSE <<192 + (Head(t) \div 64), 128 + (Head(t) % 64)>>)
         \o Utf8Encode(Tail(t))

RECURSIVE Utf8Decode(_)
Utf8Decode(b) ==
    IF b = <<>> THEN <<>>
    ELSE IF Head(b) < 128 THEN <<Head(b)>> \o Utf8Decode(Tail(b))
    ELSE IF /\ Head(b) >= 194 /\ Head(b) < 224 /\ Len(b) >= 2
            /\ b[2] >= 128 /\ b[2] < 192
         THEN <<(Head(b) - 192) * 64 + (b[2] - 128)>> \o Utf8Decode(SubSeq(b, 3, Len(b)))
    ELSE <<ReplacementChar>> \o Utf8Decode(Tail(b))

----------------------------------------------------------------------------
(* Credential cipher: EncryptionUtil *)

KEY_LENGTH == 32
IV_LENGTH == 16
TAG_LENGTH == 16
SALT_LENGTH == 64

\* master keys are opaque 256-bit values; "empty" is a zero-length buffer
Keys == {"K1", "K2"}
KeyNum(k) == IF k = "K1" THEN 1 ELSE IF k = "K2" THEN 2 ELSE 0

\* crypto.randomBytes(n): the model draws from NumSeeds buffers
NumSeeds == 1
RandomBytes(n) == {Fill(n, (37 * s) % 256) : s \in 1..NumSeeds}

\* crypto.pbkdf2Sync(masterKey, salt, ITERATIONS, KEY_LENGTH, DIGEST):
\* a deterministic function of the master key and the salt
Pbkdf2(master, salt) == (KeyNum(master) * 31 + SumSeq(salt)) % 251

\* aes-256-gcm as a keyed stream cipher with a tag over key, iv and ciphertext
KeyStream(dk, iv, i) == (dk + SumSeq(iv) + 7 * i) % 256
GcmEncrypt(dk, iv, pt) == [i \in 1..Len(pt) |-> (pt[i] + KeyStream(dk, iv, i)) % 256]
GcmDecrypt(dk, iv, ct) == [i \in 1..Len(ct) |-> (ct[i] + 256 - KeyStream(dk, iv, i)) % 256]
GcmTag(dk, iv, ct) ==
    [j \in 1..TAG_LENGTH |-> (dk * 3 + SumSeq(iv) + WeightedSum(ct) + 11 * j) % 256]

\* tag lengths setAuthTag accepts for GCM
ValidTagLengths == {4, 8, 12, 13, 14, 15, 16}

\* an encrypt that joins the ciphertext bytes as they are, without base64
EncryptWithRawCiphertext(master, salt, iv, text) ==
    LET dk == Pbkdf2(master, salt)
        ct == GcmEncrypt(dk, iv, Utf8Encode(text))
        tag == GcmTag(dk, iv, ct)
    IN  Join(<<Base64Encode(iv), Base64Encode(salt), Base64Encode(tag), ct>>, ChColon)

\* the part of encrypt after the key is there: iv:salt:tag:ciphertext
EncryptWith(master, salt, iv, text) ==
    LET dk == Pbkdf2(master, salt)
        ct == GcmEncrypt(dk, iv, Utf8Encode(text))
        tag == GcmTag(dk, iv, ct)
    IN  Join(<<Base64Encode(iv), Base64Encode(salt), Base64Encode(tag),
               Base64Encode(ct)>>, ChColon)

Thrown == [ok |-> FALSE, text |-> <<>>]
Returned(t) == [ok |-> TRUE, text |-> t]

\* the part of decrypt after the key is there
DecryptWith(master, encryptedText) ==
    LET parts == Split(encryptedText, ChColon) IN
    IF Len(parts) # 4 THEN Thrown
    ELSE
        LET iv == Base64Decode(parts[1])
            salt == Base64Decode(parts[2])
            tag == Base64Decode(parts[3])
            ct == Base64Decode(parts[4])
            dk == Pbkdf2(master, salt)
            full == GcmTag(dk, iv, ct)
        IN  IF Len(iv) = 0 THEN Thrown                       \* createDecipheriv
            ELSE IF Len(tag) \notin ValidTagLengths THEN Thrown \* setAuthTag
            ELSE IF tag # SubSeq(full, 1, Len(tag)) THEN Thrown \* final
            ELSE Returned(Utf8Decode(GcmDecrypt(dk, iv, ct)))

\* EncryptionUtil.isEncrypted: Buffer.from never throws, so the segment count decides
IsEncrypted(text) == Len(Split(text, ChColon)) = 4

----------------------------------------------------------------------------
(* Configuration directory, key file and export/import pipeline *)

FileIds == {"a", "b"}

\* no password, and "h:"
Passwords == {<<>>, <<104, ChColon>>}

\* what a .json file of the directory parses to.  kind tells a saved profile
\* from the default-config.json pointer ({ id }, so ssid, mode and createdDate
\* are undefined) and from a file loadConfig cannot parse.
Profile(ssid, mode, created, pw) ==
    [kind |-> "profile", ssid |-> ssid, mode |-> mode, createdDate |-> created,
     password |-> pw, ref |-> ""]

\* createdDate 0 stands for what new Date() makes of undefined: Invalid Date
Pointer(id) ==
    [kind |-> "pointer", ssid |-> "undefined", mode |-> "undefined", createdDate |-> 0,
     password |-> <<>>, ref |-> id]

Unparsable ==
    [kind |-> "malformed", ssid |-> "", mode |-> "", createdDate |-> 0,
     password |-> <<>>, ref |-> ""]

\* config.password, undefined and "" alike being falsy
Password(cfg) == IF cfg.kind = "profile" THEN cfg.password ELSE <<>>

WithPassword(cfg, pw) == IF cfg.kind = "profile" THEN [cfg EXCEPT !.password = pw] ELSE cfg

Perms(S) == {f \in [1..Cardinality(S) -> S] : \A i, j \in 1..Cardinality(S) : f[i] = f[j] => i = j}

\* a listing that pushes whatever loadConfig returned, null included
ListEveryFile(dir, order) ==
    [i \in 1..Len(order) |-> [id |-> order[i], config |-> dir[order[i]]]]

\* ConfigManager.listConfigs: every readable *.json of the directory, in
\* readdir order, a file loadConfig returns null for left out
ListConfigs(dir, order) ==
    LET readable == SelectSeq(order, LAMBDA id : dir[id].kind # "malformed")
    IN  [i \in 1..Len(readable) |-> [id |-> readable[i], config |-> dir[readable[i]]]]

\* ConfigManager.saveConfig: writes <id>.json, replacing what was there
SaveConfig(dir, id, cfg) == [x \in DOMAIN dir \cup {id} |-> IF x = id THEN cfg ELSE dir[x]]

\* EncryptionUtil.init run to completion with nothing in between: load the key
\* file, or generate fresh and persist it
InitAlone(mk, kf, fresh) ==
    IF mk # "null" THEN [mk |-> mk, kf |-> kf, inits |-> 0]
    ELSE IF kf = "absent" THEN [mk |-> fresh, kf |-> fresh, inits |-> 1]
    ELSE [mk |-> kf, kf |-> kf, inits |-> 1]

RandomPairs == RandomBytes(SALT_LENGTH) \X RandomBytes(IV_LENGTH)

NoTask == [pc |-> "done", gen |-> "null", token |-> <<>>, key |-> "null"]

\* keys and plain are history: the key each token was made with and the
\* password it was made from
NoEnvelope == [exists |-> FALSE, networks |-> <<>>, keys |-> <<>>, plain |-> <<>>]
NoWgEnvelope == [exists |-> FALSE, privateKey |-> <<>>, connectionName |-> "", plain |-> <<>>]
NoResult == [success |-> FALSE, imported |-> 0, errors |-> <<>>]

\* wg0.conf: a field missing from the text is ""
NoWgConf == [exists |-> FALSE, privateKey |-> <<>>, address |-> "", publicKey |-> "",
             endpoint |-> "", allowedIPs |-> ""]
WgConfs ==
    {NoWgConf,
     [exists |-> TRUE, privateKey |-> <<80, 75>>, address |-> "10.0.0.2/24",
      publicKey |-> "pub", endpoint |-> "host:51820", allowedIPs |-> "10.0.0.0/24"],
     [exists |-> TRUE, privateKey |-> <<80, 75>>, address |-> "10.0.0.2/24",
      publicKey |-> "pub", endpoint |-> "", allowedIPs |-> "10.0.0.0/24"]}

MaxMoves == 1
MaxExports == 1

PipelineProfiles == {Profile("s1", "client", 1, pw) : pw \in Passwords}

PipeInit ==
    /\ configDir \in [FileIds -> PipelineProfiles]
    /\ keyFile \in {"absent", "K1"}
    /\ masterKey = "null"
    /\ initCount = 0
    /\ expPc = "idle"
    /\ expList = <<>>
    /\ expTasks = <<>>
    /\ exportFile = NoEnvelope
    /\ wgConf \in {c \in WgConfs : c.exists /\ c.endpoint # ""}
    /\ wgExport = NoWgEnvelope
    /\ impResult = NoResult
    /\ impLog = {}
    /\ exports = 0
    /\ moves = 0
    /\ lastOp = "none"

PipeIdle ==
    /\ configDir = <<>>
    /\ keyFile = "absent"
    /\ masterKey = "null"
    /\ initCount = 0
    /\ expPc = "off"
    /\ expList = <<>>
    /\ expTasks = <<>>
    /\ exportFile = NoEnvelope
    /\ wgConf = NoWgConf
    /\ wgExport = NoWgEnvelope
    /\ impResult = NoResult
    /\ impLog = {}
    /\ exports = 0
    /\ moves = 0
    /\ lastOp = "none"

\* exportNetworkConfigs up to its first await: listConfigs, then one callback
\* per entry, each running encrypt up to encrypt's own first await.  With the
\* key in memory encrypt has no await and the token is there at once;
\* without it every callback has called init() and waits for readFile.
ExportStart ==
    /\ expPc = "idle"
    /\ exports < MaxExports
    /\ exports' = exports + 1
    /\ \E order \in Perms(DOMAIN configDir), rnd \in [DOMAIN configDir -> RandomPairs] :
          LET list == ListConfigs(configDir, order)
              Task(e) ==
                  IF Password(e.config) = <<>> THEN NoTask
                  ELSE IF masterKey # "null" THEN
                      [pc |-> "done", gen |-> "null", key |-> masterKey,
                       token |-> EncryptWith(masterKey, rnd[e.id][1], rnd[e.id][2],
                                             Password(e.config))]
                  ELSE [pc |-> "read", gen |-> "null", token |-> <<>>, key |-> "null"]
          IN  /\ expList' = list
              /\ expTasks' = [i \in 1..Len(list) |-> Task(list[i])]
    /\ expPc' = "running"
    /\ lastOp' = "exporting"
    /\ UNCHANGED <<configDir, keyFile, masterKey, initCount, exportFile, wgConf, wgExport,
                   impResult, impLog, moves>>
    /\ UNCHANGED <<cipherVars, shVars, storeVars, osVars, envVars, wgVars, statVars, netVars>>

\* init(): readFile settles.  The file is there: its content becomes the
\* master key, init returns and encrypt finishes.  It is not: a fresh key
\* becomes the master key and writeFile is started.
TaskRead(i) ==
    /\ expPc = "running"
    /\ expTasks[i].pc = "read"
    /\ initCount' = initCount + 1
    /\ IF keyFile = "absent"
       THEN \E k \in Keys :
               /\ masterKey' = k
               /\ expTasks' = [expTasks EXCEPT ![i].pc = "open", ![i].gen = k]
       ELSE /\ masterKey' = keyFile
            /\ \E pair \in RandomPairs :
                  expTasks' = [expTasks EXCEPT
                      ![i].pc = "done", ![i].key = keyFile,
                      ![i].token = EncryptWith(keyFile, pair[1], pair[2],
                                               Password(expList[i].config))]
    /\ UNCHANGED <<configDir, keyFile, expPc, expList, exportFile, wgConf, wgExport,
                   impResult, impLog, exports, moves, lastOp>>
    /\ UNCHANGED <<cipherVars, shVars, storeVars, osVars, envVars, wgVars, statVars, netVars>>

\* writeFile opens the key file for writing: created or truncated
TaskOpen(i) ==
    /\ expPc = "running"
    /\ expTasks[i].pc = "open"
    /\ keyFile' = "empty"
    /\ expTasks' = [expTasks EXCEPT ![i].pc = "write"]
    /\ UNCHANGED <<configDir, masterKey, initCount, expPc, expList, exportFile, wgConf,
                   wgExport, impResult, impLog, exports, moves, lastOp>>
    /\ UNCHANGED <<cipherVars, shVars, storeVars, osVars, envVars, wgVars, statVars, netVars>>

\* writeFile writes the key this task generated and settles; init returns and
\* encrypt finishes with this.masterKey as it is now
TaskWrite(i) ==
    /\ expPc = "running"
    /\ expTasks[i].pc = "write"
    /\ keyFile' = expTasks[i].gen
    /\ \E pair \in RandomPairs :
          expTasks' = [expTasks EXCEPT
              ![i].pc = "done", ![i].key = masterKey,
              ![i].token = EncryptWith(masterKey, pair[1], pair[2],
                                       Password(expList[i].config))]
    /\ UNCHANGED <<configDir, masterKey, initCount, expPc, expList, exportFile, wgConf,
                   wgExport, impResult, impLog, exports, moves, lastOp>>
    /\ UNCHANGED <<cipherVars, shVars, storeVars, osVars, envVars, wgVars, statVars, netVars>>

\* an export that writes the stored password as it is
PlainPassword(list, tasks, i) == Password(list[i].config)

\* the password field written for entry i
ExportedPassword(list, tasks, i) ==
    IF Password(list[i].config) = <<>> THEN Password(list[i].config) ELSE tasks[i].token

\* Promise.all has settled: the envelope is written
ExportFinish ==
    /\ expPc = "running"
    /\ \A i \in 1..Len(expTasks) : expTasks[i].pc = "done"
    /\ exportFile' =
          [exists |-> TRUE,
           networks |-> [i \in 1..Len(expList) |->
                           [id |-> expList[i].id,
                            config |-> WithPassword(expList[i].config,
                                          ExportedPassword(expList, expTasks, i))]],
           keys |-> [i \in 1..Len(expList) |-> expTasks[i].key],
           plain |-> [i \in 1..Len(expList) |-> Password(expList[i].config)]]
    /\ expPc' = "idle"
    /\ lastOp' = "export"
    /\ UNCHANGED <<configDir, keyFile, masterKey, initCount, expList, expTasks, wgConf,
                   wgExport, impResult, impLog, exports, moves>>
    /\ UNCHANGED <<cipherVars, shVars, storeVars, osVars, envVars, wgVars, statVars, netVars>>

\* the entry's password goes through decrypt: it is there and looks like a token
LooksEncrypted(config) == Password(config) # <<>> /\ IsEncrypted(Password(config))

\* an import that stores the field of the file as it is
KeepPassword(mk, config) == [password |-> Password(config), failed |-> FALSE]

\* lines 91-100 for one entry: the password to store and whether the inner
\* catch ran.  A field that decrypts is replaced by the plaintext; one that
\* does not look like a token, or on which decrypt throws, stays as it is.
ImportedPassword(mk, config) ==
    IF LooksEncrypted(config)
    THEN \* bound through a singleton so that decrypt is evaluated once
         CHOOSE out \in {[password |-> IF r.ok THEN r.text ELSE Password(config),
                          failed |-> ~r.ok] : r \in {DecryptWith(mk, Password(config))}} : TRUE
    ELSE [password |-> Password(config), failed |-> FALSE]

RECURSIVE DecryptAll(_, _)
\* what lines 91-100 yield for each entry, in file order
DecryptAll(mk, networks) ==
    IF networks = <<>> THEN <<>>
    ELSE <<ImportedPassword(mk, Head(networks).config)>> \o DecryptAll(mk, Tail(networks))

ImportError(id) == [kind |-> "import", id |-> id]

RECURSIVE ImportLoop(_, _, _, _, _)
\* the for loop of importNetworkConfigs from entry i on; st carries the
\* directory, importedCount, errors and the ids logged by the inner catch;
\* decoded[i] is what decryption made of entry i; saveConfig rejects for the
\* ids in unwritable
ImportLoop(networks, i, decoded, unwritable, st) ==
    IF i > Len(networks) THEN st
    ELSE
        LET id == networks[i].id
            importConfig == WithPassword(networks[i].config, decoded[i].password)
            logged == IF decoded[i].failed THEN st.log \cup {id} ELSE st.log
        IN  IF id \in unwritable
            THEN ImportLoop(networks, i + 1, decoded, unwritable,
                    [st EXCEPT !.errors = Append(st.errors, ImportError(id)), !.log = logged])
            ELSE ImportLoop(networks, i + 1, decoded, unwritable,
                    [st EXCEPT !.dir = SaveConfig(st.dir, id, importConfig),
                               !.count = st.count + 1, !.log = logged])

\* some entry makes the import call decrypt, and decrypt calls init
NeedsKey(networks) == \E i \in 1..Len(networks) : LooksEncrypted(networks[i].config)

\* the ways init can come out
InitOutcomes(mk, kf) == {InitAlone(mk, kf, fresh) : fresh \in Keys}

\* importNetworkConfigs(filePath) on the file exportNetworkConfigs wrote
Import ==
    /\ expPc = "idle"
    /\ IF ~exportFile.exists
       THEN /\ impResult' = [success |-> FALSE, imported |-> 0,
                             errors |-> <<[kind |-> "read", id |-> ""]>>]
            /\ impLog' = {}
            /\ UNCHANGED <<configDir, keyFile, masterKey, initCount>>
       ELSE \E key \in IF NeedsKey(exportFile.networks)
                       THEN InitOutcomes(masterKey, keyFile)
                       ELSE {[mk |-> masterKey, kf |-> keyFile, inits |-> 0]} :
            \E decoded \in {DecryptAll(key.mk, exportFile.networks)} :
            \E unwritable \in SUBSET {exportFile.networks[i].id :
                                         i \in 1..Len(exportFile.networks)} :
            \E out \in {ImportLoop(exportFile.networks, 1, decoded, unwritable,
                            [dir |-> configDir, count |-> 0, errors |-> <<>>, log |-> {}])} :
                  /\ configDir' = out.dir
                  /\ masterKey' = key.mk
                  /\ keyFile' = key.kf
                  /\ initCount' = initCount + key.inits
                  /\ impResult' = [success |-> out.count > 0, imported |-> out.count,
                                   errors |-> out.errors]
                  /\ impLog' = out.log
    /\ lastOp' = "import"
    /\ UNCHANGED <<expPc, expList, expTasks, exportFile, wgConf, wgExport, exports, moves>>
    /\ UNCHANGED <<cipherVars, shVars, storeVars, osVars, envVars, wgVars, statVars, netVars>>

\* exportWireGuardConfig: wg0.conf is read and parsed; without the file or a
\* mandatory field the export gives up, otherwise the private key is
\* encrypted (a single encrypt call) and the envelope written
ExportTunnel ==
    /\ expPc = "idle"
    /\ IF \/ ~wgConf.exists
          \/ wgConf.privateKey = <<>> \/ wgConf.address = "" \/ wgConf.publicKey = ""
          \/ wgConf.endpoint = "" \/ wgConf.allowedIPs = ""
       THEN UNCHANGED <<keyFile, masterKey, initCount, wgExport>>
       ELSE \E key \in InitOutcomes(masterKey, keyFile), pair \in RandomPairs :
              /\ masterKey' = key.mk
              /\ keyFile' = key.kf
              /\ initCount' = initCount + key.inits
              /\ wgExport' = [exists |-> TRUE, connectionName |-> "wg0",
                              privateKey |-> EncryptWith(key.mk, pair[1], pair[2],
                                                         wgConf.privateKey),
                              plain |-> wgConf.privateKey]
    /\ lastOp' = "exportTunnel"
    /\ UNCHANGED <<configDir, expPc, expList, expTasks, exportFile, wgConf, impResult,
                   impLog, exports, moves>>
    /\ UNCHANGED <<cipherVars, shVars, storeVars, osVars, envVars, wgVars, statVars, netVars>>

\* the program exits and is started again: masterKey is a static of the process
Restart ==
    /\ expPc = "idle"
    /\ masterKey # "null"
    /\ masterKey' = "null"
    /\ initCount' = 0
    /\ lastOp' = "other"
    /\ UNCHANGED <<configDir, keyFile, expPc, expList, expTasks, exportFile, wgConf,
                   wgExport, impResult, impLog, exports, moves>>
    /\ UNCHANGED <<cipherVars, shVars, storeVars, osVars, envVars, wgVars, statVars, netVars>>

\* the export files are carried to another device, which has its own key file
\* (or none yet) and an empty configuration directory
MoveToDevice ==
    /\ expPc = "idle"
    /\ moves < MaxMoves
    /\ exportFile.exists
    /\ keyFile' \in {"absent", "K2"}
    /\ configDir' = <<>>
    /\ masterKey' = "null"
    /\ initCount' = 0
    /\ wgConf' = NoWgConf
    /\ moves' = moves + 1
    /\ lastOp' = "other"
    /\ UNCHANGED <<expPc, expList, expTasks, exportFile, wgExport, impResult, impLog,
                   exports>>
    /\ UNCHANGED <<cipherVars, shVars, storeVars, osVars, envVars, wgVars, statVars, netVars>>

----------------------------------------------------------------------------
(* workhive.sh: saved configurations, one <id>.conf each *)

\* "hotspot" and "client" as they appear in a generated name
ModeChars(mode) ==
    IF mode = "hotspot" THEN <<104, 111, 116, 115, 112, 111, 116>>
    ELSE <<99, 108, 105, 101, 110, 116>>

\* ${s// /_}
SpacesToUnderscores(s) == [i \in 1..Len(s) |-> IF s[i] = ChSpace THEN ChUnderscore ELSE s[i]]

\* tr -cd 'a-zA-Z0-9_-'
TrKeepIdChars(s) ==
    SelectSeq(s, LAMBDA c : \/ (c >= 97 /\ c <= 122) \/ (c >= 65 /\ c <= 90)
                            \/ (c >= 48 /\ c <= 57) \/ c = ChUnderscore \/ c = 45)

create_config_id(custom_name, mode, ssid) ==
    IF custom_name # <<>>
    THEN TrKeepIdChars(SpacesToUnderscores(custom_name))
    ELSE TrKeepIdChars(SpacesToUnderscores(ssid) \o <<ChUnderscore>> \o ModeChars(mode))

RECURSIVE Decimal(_)
\* $counter expanded in a string
Decimal(n) == IF n < 10 THEN <<48 + n>> ELSE Decimal(n \div 10) \o <<48 + (n % 10)>>

\* base_id with the collision suffix _n
Suffixed(base_id, n) == base_id \o <<ChUnderscore>> \o Decimal(n)

\* a naming that takes the base id whether or not it is taken
TakeBaseId(dir, base_id) == base_id

RECURSIVE UniqueLoop(_, _, _, _)
\* the while loop of get_unique_config_id
UniqueLoop(dir, base_id, config_id, counter) ==
    IF config_id \in DOMAIN dir
    THEN UniqueLoop(dir, base_id, Suffixed(base_id, counter), counter + 1)
    ELSE config_id

get_unique_config_id(dir, base_id) == UniqueLoop(dir, base_id, base_id, 1)

ShInterface == "wlan0"
ShCaptive == "off"

ShConf(mode, ssid, password, created, config_id) ==
    [interface |-> ShInterface, mode |-> mode, ssid |-> ssid, password |-> password,
     captive |-> ShCaptive, created |-> created, configId |-> config_id]

\* cat > "$config_file": the file is created or replaced
WriteConf(dir, id, conf) == [x \in DOMAIN dir \cup {id} |-> IF x = id THEN conf ELSE dir[x]]

\* save_config: the id it chose and the directory afterwards
save_config(dir, mode, ssid, password, custom_name, now) ==
    LET base_id == create_config_id(custom_name, mode, ssid)
        config_id == get_unique_config_id(dir, base_id)
    IN  [base |-> base_id, id |-> config_id,
         dir |-> WriteConf(dir, config_id, ShConf(mode, ssid, password, now, config_id))]

\* config_exists: some file has this ssid, mode and password
config_exists(dir, ssid, mode, password) ==
    \E f \in DOMAIN dir :
        dir[f].ssid = ssid /\ dir[f].mode = mode /\ dir[f].password = password

\* the hotspot branch's own scan: interface and captive mode compared as well
IdenticalExists(dir, mode, ssid, password) ==
    \E f \in DOMAIN dir :
        /\ dir[f].interface = ShInterface /\ dir[f].mode = mode /\ dir[f].ssid = ssid
        /\ dir[f].password = password /\ dir[f].captive = ShCaptive

MaxShRuns == 3

\* --config_name: none, "a", "a 1" (sanitised to a_1, the first suffix of a)
ShNames == {<<>>, <<97>>, <<97, ChSpace, 49>>}
ShSsids == {<<97>>}
ShPasswords == {<<112>>, <<113>>, <<114>>}

NoShOp == [op |-> "none", named |-> FALSE, base |-> <<>>, id |-> <<>>, before |-> <<>>]

\* activate: the config id of --activate, <<>> on other runs; connect: the
\* SSID "nmcli dev wifi connect" ran for, up: the hotspot was brought up
NoNet == [activate |-> <<>>, connect |-> <<>>, up |-> FALSE]

ShIdle ==
    /\ shDir = <<>>
    /\ shRuns = 0
    /\ shLast = NoShOp
    /\ shNet = NoNet

\* handle_setup from line 826 on, called with this mode, SSID, password and
\* config name; connected tells whether nmcli's connect, if it is run,
\* succeeds; activated is the id --activate was given, <<>> otherwise
SetupRun(mode, ssid, password, name, connected, activated) ==
    LET skip(op) == /\ shDir' = shDir
                    /\ shLast' = [op |-> op, named |-> name # <<>>, base |-> <<>>,
                                  id |-> <<>>, before |-> shDir]
        \* base: the name the save started from, before any suffix
        save(custom_name, base) ==
            \E saved \in {save_config(shDir, mode, ssid, password, custom_name,
                                      shRuns + 1)} :
                /\ shDir' = saved.dir
                /\ shLast' = [op |-> "save", named |-> name # <<>>,
                              base |-> base, id |-> saved.id, before |-> shDir]
    IN  IF mode = "hotspot"
        THEN /\ connected
             /\ shNet' = [activate |-> activated, connect |-> <<>>, up |-> TRUE]
             /\ IF IdenticalExists(shDir, mode, ssid, password)
                THEN skip("touch")
                ELSE IF name = <<>>
                THEN save(get_unique_config_id(shDir,
                                               create_config_id(<<>>, mode, ssid)),
                          create_config_id(<<>>, mode, ssid))
                ELSE save(name, create_config_id(name, mode, ssid))
        ELSE IF config_exists(shDir, ssid, mode, password)
             THEN /\ connected
                  /\ shNet' = [activate |-> activated, connect |-> <<>>, up |-> FALSE]
                  /\ skip("exists")
             ELSE /\ shNet' = [activate |-> activated, connect |-> ssid, up |-> FALSE]
                  /\ IF connected
                     THEN save(name, create_config_id(name, mode, ssid))
                     ELSE skip("failed")

\* the part of handle_setup that decides about saving, after the hotspot is
\* up (hotspot) or around nmcli's connect (client)
handle_setup ==
    /\ shRuns < MaxShRuns
    /\ shRuns' = shRuns + 1
    /\ \E mode \in {"hotspot", "client"}, ssid \in ShSsids, password \in ShPasswords,
          name \in ShNames, connected \in BOOLEAN :
          SetupRun(mode, ssid, password, name, connected, <<>>)
    /\ UNCHANGED <<cipherVars, pipeVars, storeVars, osVars, envVars, wgVars, statVars, netVars>>

\* "HotspotAccess123!", what ${4:-...} puts for an empty password
DefaultPassword ==
    <<72, 111, 116, 115, 112, 111, 116, 65, 99, 99, 101, 115, 115, 49, 50, 51, 33>>

\* a config id that names no file
NoSuchId == <<122>>

\* activate_config: --activate <config_id>
activate_config ==
    /\ shRuns < MaxShRuns
    /\ shRuns' = shRuns + 1
    /\ \E config_id \in DOMAIN shDir \cup {NoSuchId}, connected \in BOOLEAN :
          IF config_id \notin DOMAIN shDir
          THEN /\ connected
               /\ shDir' = shDir
               /\ shLast' = [op |-> "notfound", named |-> FALSE, base |-> <<>>,
                             id |-> <<>>, before |-> shDir]
               /\ shNet' = [activate |-> config_id, connect |-> <<>>, up |-> FALSE]
          ELSE SetupRun(shDir[config_id].mode, shDir[config_id].ssid,
                        IF shDir[config_id].password = <<>> THEN DefaultPassword
                        ELSE shDir[config_id].password,
                        <<>>, connected, config_id)
    /\ UNCHANGED <<cipherVars, pipeVars, storeVars, osVars, envVars, wgVars, statVars, netVars>>

\* the files of each SSID/MODE pair that has more than one
ShDuplicateGroups(dir) ==
    {g \in {{f \in DOMAIN dir : dir[f].ssid = dir[h].ssid /\ dir[f].mode = dir[h].mode} :
                h \in DOMAIN dir} : Cardinality(g) > 1}

\* deduplicate_saved_configs: for every pair with several files the user
\* answers k, d or s.  d removes the files of the pair; so does k, whatever
\* numbers are entered, because the range test on them never succeeds.
deduplicate_saved_configs ==
    /\ ShDuplicateGroups(shDir) # {}
    /\ \E removed \in SUBSET ShDuplicateGroups(shDir) :
          /\ shDir' = [f \in DOMAIN shDir \ UNION removed |-> shDir[f]]
          /\ shLast' = [op |-> "dedupe", named |-> FALSE, base |-> <<>>, id |-> <<>>,
                        before |-> shDir]
    /\ shNet' = NoNet
    /\ UNCHANGED shRuns
    /\ UNCHANGED <<cipherVars, pipeVars, storeVars, osVars, envVars, wgVars, statVars, netVars>>

----------------------------------------------------------------------------
(* Deduplication of the JSON store and of the OS connection profiles *)

StoreIdle == stBefore = <<>> /\ stListed = <<>>

\* a comparison that prefers the older record
DateGreater(a, b) == a # 0 /\ b # 0 /\ a > b

\* Date < Date: false as soon as one of them is invalid
DateLess(a, b) == a # 0 /\ b # 0 /\ a < b

\* `${config.ssid}:${config.mode}`; mode never holds a colon, so the string
\* determines the pair
ConfigKey(config) == <<config.ssid, config.mode>>

RECURSIVE Keepers(_, _, _)
\* the first loop of deduplicateConfigs from entry i on: uniqueConfigs as
\* key -> index of the entry kept so far
Keepers(configs, i, unique) ==
    IF i > Len(configs) THEN unique
    ELSE
        LET key == ConfigKey(configs[i].config) IN
        IF \/ key \notin DOMAIN unique
           \/ DateLess(configs[unique[key]].config.createdDate, configs[i].config.createdDate)
        THEN Keepers(configs, i + 1,
                     [k \in DOMAIN unique \cup {key} |-> IF k = key THEN i ELSE unique[k]])
        ELSE Keepers(configs, i + 1, unique)

\* the second loop: every listed file that is not the keeper of its key is
\* unlinked
Deduplicated(dir, order) ==
    LET configs == ListConfigs(dir, order)
        unique == Keepers(configs, 1, <<>>)
        unlinked == {configs[i].id : i \in {j \in 1..Len(configs) :
                        configs[unique[ConfigKey(configs[j].config)]].id # configs[j].id}}
    IN  [f \in DOMAIN dir \ unlinked |-> dir[f]]

StoreIds == {"a", "b", "c"}
DefaultConfigId == "default-config"
MaxDate == 2

\* what the directory holds at the start: client profiles of two networks
StoredProfiles ==
    {Profile(ssid, "client", created, <<>>) : ssid \in {"s1", "s2"}, created \in 1..MaxDate}

StoreInit ==
    /\ configDir \in UNION {[S -> StoredProfiles \cup {Unparsable}] : S \in SUBSET StoreIds}
    /\ stBefore = <<>>
    /\ stListed = <<>>
    /\ keyFile = "absent"
    /\ masterKey = "null"
    /\ initCount = 0
    /\ expPc = "off"
    /\ expList = <<>>
    /\ expTasks = <<>>
    /\ exportFile = NoEnvelope
    /\ wgConf = NoWgConf
    /\ wgExport = NoWgEnvelope
    /\ impResult = NoResult
    /\ impLog = {}
    /\ exports = 0
    /\ moves = 0
    /\ lastOp = "none"

\* ConfigManager.deduplicateConfigs
deduplicateConfigs ==
    /\ \E order \in Perms(DOMAIN configDir) : configDir' = Deduplicated(configDir, order)
    /\ stBefore' = configDir
    /\ stListed' = <<>>
    /\ lastOp' = "dedupe"
    /\ UNCHANGED <<keyFile, masterKey, initCount, expPc, expList, expTasks, exportFile,
                   wgConf, wgExport, impResult, impLog, exports, moves>>
    /\ UNCHANGED <<cipherVars, shVars, osVars, envVars, wgVars, statVars, netVars>>

\* ConfigManager.setDefaultConfig(id): default-config.json is written into
\* the same directory
setDefaultConfig ==
    /\ \E id \in StoreIds : configDir' = SaveConfig(configDir, DefaultConfigId, Pointer(id))
    /\ lastOp' = "default"
    /\ UNCHANGED <<keyFile, masterKey, initCount, expPc, expList, expTasks, exportFile,
                   wgConf, wgExport, impResult, impLog, exports, moves>>
    /\ stBefore' = <<>>
    /\ stListed' = <<>>
    /\ UNCHANGED <<cipherVars, shVars, osVars, envVars, wgVars, statVars, netVars>>

\* NetworkService.saveCurrentConfig(id, status) with status.connected: the
\* connection is saved under the id with the current time, which is later
\* than every date stored so far
saveCurrentConfig ==
    /\ \E id \in StoreIds, mode \in {"client", "hotspot"} :
          configDir' = SaveConfig(configDir, id, Profile("s1", mode, MaxDate + 1, <<>>))
    /\ lastOp' = "save"
    /\ UNCHANGED <<keyFile, masterKey, initCount, expPc, expList, expTasks, exportFile,
                   wgConf, wgExport, impResult, impLog, exports, moves>>
    /\ stBefore' = <<>>
    /\ stListed' = <<>>
    /\ UNCHANGED <<cipherVars, shVars, osVars, envVars, wgVars, statVars, netVars>>

StoreNext == deduplicateConfigs \/ setDefaultConfig \/ saveCurrentConfig

\* ConfigManager.listConfigs called on its own (the list command)
listConfigs ==
    /\ \E order \in Perms(DOMAIN configDir) : stListed' = ListConfigs(configDir, order)
    /\ lastOp' = "list"
    /\ stBefore' = <<>>
    /\ UNCHANGED <<configDir, keyFile, masterKey, initCount, expPc, expList, expTasks,
                   exportFile, wgConf, wgExport, impResult, impLog, exports, moves>>
    /\ UNCHANGED <<cipherVars, shVars, osVars, envVars, wgVars, statVars, netVars>>

\* what boot-setup may be given: an id of the store, or the pointer's own name
BootIds == StoreIds \cup {DefaultConfigId}

\* the boot-setup command: the id is looked up in what listConfigs returns and
\* only then made the default.  some() does not depend on the order of the
\* listing, so one readdir order stands for all.
boot_setup ==
    /\ \E id \in BootIds :
          LET order == CHOOSE o \in Perms(DOMAIN configDir) : TRUE
              savedConfigs == ListConfigs(configDir, order)
              configExists == \E i \in 1..Len(savedConfigs) : savedConfigs[i].id = id
          IN  /\ stListed' = <<>>
              /\ IF configExists
                 THEN /\ configDir' = SaveConfig(configDir, DefaultConfigId, Pointer(id))
                      /\ lastOp' = "boot"
                 ELSE /\ configDir' = configDir
                      /\ lastOp' = "notfound"
    /\ stBefore' = <<>>
    /\ UNCHANGED <<keyFile, masterKey, initCount, expPc, expList, expTasks, exportFile,
                   wgConf, wgExport, impResult, impLog, exports, moves>>
    /\ UNCHANGED <<cipherVars, shVars, osVars, envVars, wgVars, statVars, netVars>>

BootNext == saveCurrentConfig \/ boot_setup \/ deduplicateConfigs

ListNext == listConfigs \/ boot_setup

\* ---- NetworkManager's connection profiles ----

OsNames == {"n1", "n2", "n3"}
MaxTimestamp == 2

WifiProfile(ssid, timestamp) == [type |-> "802-11-wireless", ssid |-> ssid, timestamp |-> timestamp]
EthernetProfile == [type |-> "802-3-ethernet", ssid |-> "", timestamp |-> 0]

OsProfileValues ==
    {EthernetProfile} \cup {WifiProfile(ssid, t) : ssid \in {"s1", "s2"}, t \in 0..MaxTimestamp}

OsIdle ==
    /\ osProfiles = <<>>
    /\ osBefore = <<>>
    /\ osLast = "none"

\* the names nmcli lists as wifi, in listing order
WifiProfiles(profiles, order) ==
    SelectSeq(order, LAMBDA n : profiles[n].type = "802-11-wireless")

\* profilesBySSID.get(ssid): the listed wifi profiles whose SSID probe
\* succeeded with a non-empty answer equal to ssid, in listing order
ProfilesBySSID(profiles, order, ssidFails, ssid) ==
    SelectSeq(WifiProfiles(profiles, order),
              LAMBDA n : n \notin ssidFails /\ profiles[n].ssid # "" /\ profiles[n].ssid = ssid)

\* the timestamp the pass works with: 0 when the probe fails
ProbedTimestamp(profiles, tsFails, n) == IF n \in tsFails THEN 0 ELSE profiles[n].timestamp

\* sortedProfiles[0] after the stable sort by timestamp, descending: the first
\* of the group, in listing order, that no other member beats
MostRecent(profiles, tsFails, group) ==
    group[CHOOSE i \in 1..Len(group) :
            /\ \A j \in 1..Len(group) :
                  ProbedTimestamp(profiles, tsFails, group[j])
                      <= ProbedTimestamp(profiles, tsFails, group[i])
            /\ \A j \in 1..(i - 1) :
                  ProbedTimestamp(profiles, tsFails, group[j])
                      < ProbedTimestamp(profiles, tsFails, group[i])]

\* the profiles the last loop deletes
DeletedProfiles(profiles, order, ssidFails, tsFails) ==
    UNION {LET group == ProfilesBySSID(profiles, order, ssidFails, ssid) IN
           IF Len(group) > 1
           THEN {group[i] : i \in 1..Len(group)} \ {MostRecent(profiles, tsFails, group)}
           ELSE {} : ssid \in {profiles[n].ssid : n \in DOMAIN profiles}}

OsInit ==
    /\ osProfiles \in UNION {[S -> OsProfileValues] : S \in SUBSET OsNames}
    /\ osBefore = <<>>
    /\ osLast = "none"

\* ConfigManager.deduplicateNetworkProfiles as the TypeScript source has it;
\* ssidFails and tsFails are the profiles for which nmcli's SSID and
\* timestamp query fail
deduplicateNetworkProfiles ==
    /\ \E order \in Perms(DOMAIN osProfiles),
          ssidFails \in SUBSET DOMAIN osProfiles, tsFails \in SUBSET DOMAIN osProfiles :
          osProfiles' = [n \in DOMAIN osProfiles
                              \ DeletedProfiles(osProfiles, order, ssidFails, tsFails)
                            |-> osProfiles[n]]
    /\ osBefore' = osProfiles
    /\ osLast' = "ts"
    /\ UNCHANGED <<cipherVars, pipeVars, shVars, storeVars, envVars, wgVars, statVars, netVars>>

\* the same method in the compiled config.util.js: the last loop is
\*   for (_b = 0, _c = profilesBySSID.entries(); _b < _c.length; _b++)
\* and a Map iterator has no length, so its body never runs
deduplicateNetworkProfiles_js ==
    /\ osProfiles' = osProfiles
    /\ osBefore' = osProfiles
    /\ osLast' = "js"
    /\ UNCHANGED <<cipherVars, pipeVars, shVars, storeVars, envVars, wgVars, statVars, netVars>>

OsNext == deduplicateNetworkProfiles \/ deduplicateNetworkProfiles_js

(* importNetworkConfigs handed a file of any content *)

\* {}: what { ...undefined } is, and what saveConfig then writes
EmptyObject ==
    [kind |-> "empty", ssid |-> "undefined", mode |-> "undefined", createdDate |-> 0,
     password |-> <<>>, ref |-> ""]

\* an element of the networks array: null, or an object with id and config
NullEntry == [isNull |-> TRUE, id |-> "", config |-> EmptyObject]
Entry(id, config) == [isNull |-> FALSE, id |-> id, config |-> config]

\* "h" encrypted under K1, and a string of four segments that no key decrypts:
\* "a:b:c:d"
GoodToken == EncryptWith("K1", Fill(SALT_LENGTH, 37), Fill(IV_LENGTH, 37), <<104>>)
BadToken == <<97, ChColon, 98, ChColon, 99, ChColon, 100>>

EnvPasswords == {<<>>, GoodToken, BadToken}

EntryValues ==
    {NullEntry} \cup {Entry(id, Profile("s1", "client", 1, pw)) :
                         id \in FileIds, pw \in EnvPasswords}

MaxEntries == 3

RECURSIVE SeqsUpTo(_, _)
SeqsUpTo(S, n) ==
    IF n = 0 THEN {<<>>}
    ELSE LET shorter == SeqsUpTo(S, n - 1)
         IN  shorter \cup {Append(t, x) : t \in shorter, x \in S}

\* the networks field: not there, a string, or an array
MissingNetworks == [kind |-> "missing", items |-> <<>>]
StringNetworks == [kind |-> "string", items |-> <<>>]
ArrayNetworks(items) == [kind |-> "array", items |-> items]

\* the file: not readable, not JSON, the JSON text null, or an object
Envelopes ==
    {[kind |-> k, networks |-> MissingNetworks] : k \in {"unreadable", "unparsable", "null"}}
    \cup {[kind |-> "object", networks |-> n] : n \in {MissingNetworks, StringNetworks}}
    \cup {[kind |-> "object", networks |-> ArrayNetworks(items)] :
             items \in SeqsUpTo(EntryValues, MaxEntries)}

EnvIdle ==
    /\ envelope = [kind |-> "unreadable", networks |-> MissingNetworks]
    /\ envUnwritable = {}
    /\ envBefore = <<>>

\* a guard that leaves out the Array.isArray test
MissingOnly(data) == data.networks.kind = "missing"

\* line 81: !data.networks || !Array.isArray(data.networks)
InvalidFormat(data) == data.networks.kind = "missing" \/ data.networks.kind # "array"

\* what for...of hands out: the elements of an array; of a string its
\* characters, on which { id, config } are both undefined
Iterated(networks) ==
    IF networks.kind = "array" THEN networks.items
    ELSE IF networks.kind = "string" THEN <<Entry("undefined", EmptyObject)>>
    ELSE <<>>

\* the entries the loop gets through: destructuring null throws in the head
\* of the for statement, outside the try of the loop body
RECURSIVE BeforeNull(_)
BeforeNull(items) ==
    IF items = <<>> \/ Head(items).isNull THEN <<>>
    ELSE <<Head(items)>> \o BeforeNull(Tail(items))

ReadError == [kind |-> "read", id |-> ""]
FormatError == [kind |-> "format", id |-> ""]

\* importNetworkConfigs(filePath) on any file
importNetworkConfigs ==
    /\ expPc = "off"
    /\ lastOp' = "importFile"
    /\ envBefore' = configDir
    /\ IF envelope.kind # "object"
       THEN \* readFile, JSON.parse or data.networks of null throws
            /\ impResult' = [success |-> FALSE, imported |-> 0, errors |-> <<ReadError>>]
            /\ impLog' = {}
            /\ envUnwritable' = {}
            /\ UNCHANGED <<configDir, keyFile, masterKey, initCount>>
       ELSE IF InvalidFormat(envelope)
       THEN /\ impResult' = [success |-> FALSE, imported |-> 0, errors |-> <<FormatError>>]
            /\ impLog' = {}
            /\ envUnwritable' = {}
            /\ UNCHANGED <<configDir, keyFile, masterKey, initCount>>
       ELSE \E items \in {Iterated(envelope.networks)} :
            \E done \in {BeforeNull(items)} :
            \E key \in IF NeedsKey(done)
                       THEN InitOutcomes(masterKey, keyFile)
                       ELSE {[mk |-> masterKey, kf |-> keyFile, inits |-> 0]} :
            \E decoded \in {DecryptAll(key.mk, done)} :
            \E unwritable \in SUBSET {done[i].id : i \in 1..Len(done)} :
            \E out \in {ImportLoop(done, 1, decoded, unwritable,
                            [dir |-> configDir, count |-> 0, errors |-> <<>>, log |-> {}])} :
                  /\ configDir' = out.dir
                  /\ masterKey' = key.mk
                  /\ keyFile' = key.kf
                  /\ initCount' = initCount + key.inits
                  /\ impLog' = out.log
                  /\ envUnwritable' = unwritable
                  /\ impResult' =
                        IF Len(done) < Len(items)
                        THEN [success |-> FALSE, imported |-> 0, errors |-> <<ReadError>>]
                        ELSE [success |-> out.count > 0, imported |-> out.count,
                              errors |-> out.errors]
    /\ UNCHANGED <<expPc, expList, expTasks, exportFile, wgConf, wgExport, exports, moves>>
    /\ UNCHANGED envelope
    /\ UNCHANGED <<cipherVars, shVars, storeVars, osVars, wgVars, statVars, netVars>>

\* the directory the import starts from: empty, or holding an older profile
EnvDirs == {<<>>, [id \in {"a"} |-> Profile("s0", "client", 1, <<>>)]}

ImportInit ==
    /\ envelope \in Envelopes
    /\ envUnwritable = {}
    /\ envBefore = <<>>
    /\ configDir \in EnvDirs
    /\ keyFile \in Keys
    /\ masterKey = "null"
    /\ initCount = 0
    /\ expPc = "off"
    /\ expList = <<>>
    /\ expTasks = <<>>
    /\ exportFile = NoEnvelope
    /\ wgConf = NoWgConf
    /\ wgExport = NoWgEnvelope
    /\ impResult = NoResult
    /\ impLog = {}
    /\ exports = 0
    /\ moves = 0
    /\ lastOp = "none"

----------------------------------------------------------------------------
(* The tunnel: WireGuardService and importWireGuardConfig *)

ChDot == 46
ChSlash == 47
ChComma == 44
ChNewline == 10

NaN == -1

IsDigit(c) == c >= 48 /\ c <= 57

\* parseInt: the number its leading digits spell, NaN without one; undefined
\* (no such piece) is handed in as <<>>
ParseInt(s) ==
    LET n == IF \E i \in 1..Len(s) : ~IsDigit(s[i])
             THEN Min({i \in 1..Len(s) : ~IsDigit(s[i])}) - 1
             ELSE Len(s)
    IN  IF n = 0 THEN NaN
        ELSE SumSeq([i \in 1..n |-> (s[i] - 48) * (10 ^ (n - i))])

\* piece k of a split, <<>> where the array has no such element
Piece(parts, k) == IF k <= Len(parts) THEN parts[k] ELSE <<>>

\* "10.0.0." followed by the last octet
Ip10(last) == <<49, 48, ChDot, 48, ChDot, 48, ChDot>> \o Decimal(last)
Cidr(ip, subnet) == ip \o <<ChSlash>> \o Decimal(subnet)

NoAddress == [thrown |-> TRUE, ip |-> <<>>]

\* getFreeIP(baseIP, subnet) where ping reports "1 received" for the last
\* octets in reachable: the first i from the last octet of baseIP up to 254
\* whose ping does not
getFreeIP(baseIP, subnet, reachable) ==
    LET parts == Split(baseIP, ChDot)
        base == Join(SubSeq(parts, 1, IF Len(parts) < 3 THEN Len(parts) ELSE 3), ChDot)
        start == ParseInt(Piece(parts, 4))
        free == IF start = NaN THEN {} ELSE {i \in start..254 : i \notin reachable}
    IN  IF free = {} THEN NoAddress
        ELSE [thrown |-> FALSE,
              ip |-> base \o <<ChDot>> \o Decimal(Min(free)) \o <<ChSlash>> \o Decimal(subnet)]

\* lines 52-54 of setup
FreeAddress(allowedIPs, reachable) ==
    LET block == Split(allowedIPs[1], ChSlash)
        baseIP == block[1]
        parsed == ParseInt(Piece(block, 2))
        subnet == IF parsed = NaN \/ parsed = 0 THEN 24 ELSE parsed
    IN  getFreeIP(baseIP, subnet, reachable)

\* private keys: one found in a config or handed in, one "wg genkey" made
GivenKey == <<80, 75>>
GeneratedKey == <<71, 75>>

\* "undefined", what a template literal makes of a missing field
Undefined == <<117, 110, 100, 101, 102, 105, 110, 101, 100>>

\* the fields of a tunnel config file
ConfText(privateKey, address, publicKey, endpoint, allowedIPs) ==
    [privateKey |-> privateKey, address |-> address, publicKey |-> publicKey,
     endpoint |-> endpoint, allowedIPs |-> allowedIPs]

WriteFile(files, name, text) ==
    [n \in DOMAIN files \cup {name} |-> IF n = name THEN text ELSE files[n]]

Device == [files |-> wgFiles, enabled |-> wgEnabled, active |-> wgActive, iface |-> wgIface]

SetupStages == {"keys", "write", "chmod", "enable", "start"}

\* setup(options) when the command of stage fail, if it is reached, exits
\* non-zero: the device afterwards, the object returned and, as history, the
\* stage at which the catch was entered
SetupOutcome(dev, options, reachable, fail) ==
    LET privateKey == IF options.privateKey # <<>> THEN options.privateKey ELSE GeneratedKey
        free == FreeAddress(options.allowedIPs, reachable)
        text == ConfText(privateKey, free.ip, "pub", options.endpoint,
                         Join(options.allowedIPs, ChComma))
        written == [dev EXCEPT !.files = WriteFile(dev.files, "wg0", text)]
        enabled == [written EXCEPT !.enabled = TRUE]
        started == [enabled EXCEPT !.active = TRUE, !.iface = TRUE]
        Failed(d, stage) == [dev |-> d, result |-> [success |-> FALSE], stage |-> stage]
    IN  IF fail = "keys" THEN Failed(dev, "keys")
        ELSE IF free.thrown THEN Failed(dev, "address")
        ELSE IF fail = "write" THEN Failed(dev, "write")
        ELSE IF fail = "chmod" THEN Failed(written, "chmod")
        ELSE IF fail = "enable" THEN Failed(written, "enable")
        ELSE IF fail = "start" /\ ~dev.active THEN Failed(enabled, "start")
        ELSE [dev |-> started,
              result |-> [success |-> TRUE,
                          config |-> [privateKey |-> privateKey, publicKey |-> "pub",
                                      address |-> free.ip, endpoint |-> options.endpoint,
                                      allowedIPs |-> options.allowedIPs]],
              stage |-> "none"]

StopCommands == {"stop", "disable", "del", "down", "forceDel"}

\* the commands that fail together in one call of stop()
StopFailures ==
    {{}, {"stop"}, {"disable"}, {"del"}, {"del", "down"}, {"del", "forceDel"}}

\* lines 147-157: the interface is looked for and, if there, taken down and
\* deleted; a command of these that fails lands in the empty catch
Verified(dev, fails) ==
    IF dev.iface /\ "down" \notin fails /\ "forceDel" \notin fails
    THEN [dev EXCEPT !.iface = FALSE]
    ELSE dev

\* a stop() that lets a failing "ip link del" of the else branch throw
StopThrowing(dev, fails) ==
    IF dev.active
    THEN IF "stop" \in fails THEN [dev |-> dev, result |-> FALSE]
         ELSE LET stopped == [dev EXCEPT !.active = FALSE, !.iface = FALSE]
              IN  IF "disable" \in fails THEN [dev |-> stopped, result |-> FALSE]
                  ELSE [dev |-> Verified([stopped EXCEPT !.enabled = FALSE], fails),
                        result |-> TRUE]
    ELSE IF dev.iface /\ "del" \notin fails
         THEN [dev |-> Verified([dev EXCEPT !.iface = FALSE], fails), result |-> TRUE]
         ELSE [dev |-> dev, result |-> FALSE]

\* stop() when the commands in fails, if they are reached, exit non-zero;
\* "ip link del" also does where there is no interface
StopOutcome(dev, fails) ==
    IF dev.active
    THEN IF "stop" \in fails THEN [dev |-> dev, result |-> FALSE]
         ELSE LET stopped == [dev EXCEPT !.active = FALSE, !.iface = FALSE]
              IN  IF "disable" \in fails THEN [dev |-> stopped, result |-> FALSE]
                  ELSE [dev |-> Verified([stopped EXCEPT !.enabled = FALSE], fails),
                        result |-> TRUE]
    ELSE IF dev.iface /\ "del" \notin fails
         THEN [dev |-> Verified([dev EXCEPT !.iface = FALSE], fails), result |-> TRUE]
         ELSE [dev |-> Verified(dev, fails), result |-> TRUE]

NoTunnelOp ==
    [op |-> "none", result |-> [success |-> FALSE], stage |-> "none", lacks |-> {},
     block |-> <<>>, reachable |-> {},
     before |-> [files |-> <<>>, enabled |-> FALSE, active |-> FALSE, iface |-> FALSE]]

WgIdle ==
    /\ wgFiles = <<>>
    /\ wgEnabled = FALSE
    /\ wgActive = FALSE
    /\ wgIface = FALSE
    /\ wgLast = NoTunnelOp

\* the first allowedIPs block handed to setup: "10.0.0.0/24" and "10.0.0.1/24"
Blocks == {Cidr(Ip10(0), 24), Cidr(Ip10(1), 24)}

\* who answers the ping: .1 to .5, .0 to .5, everybody
ReachableSets == {1..5, 0..5, 0..254}

\* no private key handed in: setup generates one
SetupOptions ==
    {[endpoint |-> "host:51820", allowedIPs |-> <<b>>, privateKey |-> <<>>] : b \in Blocks}

\* WireGuardService.setup
setup ==
    \E options \in SetupOptions, reachable \in ReachableSets,
       fail \in SetupStages \cup {"none"} :
    \E out \in {SetupOutcome(Device, options, reachable, fail)} :
          /\ wgFiles' = out.dev.files
          /\ wgEnabled' = out.dev.enabled
          /\ wgActive' = out.dev.active
          /\ wgIface' = out.dev.iface
          /\ wgLast' = [NoTunnelOp EXCEPT !.op = "setup", !.result = out.result,
                            !.stage = out.stage, !.block = options.allowedIPs[1],
                            !.reachable = reachable, !.before = Device]
          /\ UNCHANGED <<cipherVars, pipeVars, shVars, storeVars, osVars, envVars, statVars, netVars>>

\* WireGuardService.stop
stop ==
    \E fails \in StopFailures :
    \E out \in {StopOutcome(Device, fails)} :
          /\ wgFiles' = out.dev.files
          /\ wgEnabled' = out.dev.enabled
          /\ wgActive' = out.dev.active
          /\ wgIface' = out.dev.iface
          /\ wgLast' = [NoTunnelOp EXCEPT !.op = "stop",
                            !.result = [success |-> out.result], !.before = Device]
          /\ UNCHANGED <<cipherVars, pipeVars, shVars, storeVars, osVars, envVars, statVars, netVars>>

\* workhive.sh: "wg-quick up wg0" brings the interface up past systemd
wg_quick_up ==
    /\ "wg0" \in DOMAIN wgFiles
    /\ ~wgIface
    /\ wgIface' = TRUE
    /\ wgLast' = [NoTunnelOp EXCEPT !.op = "up", !.result = [success |-> TRUE],
                      !.before = Device]
    /\ UNCHANGED <<wgFiles, wgEnabled, wgActive>>
    /\ UNCHANGED <<cipherVars, pipeVars, shVars, storeVars, osVars, envVars, statVars, netVars>>

MandatoryFields == {"privateKey", "address", "publicKey", "endpoint", "allowedIPs"}

\* the private key of wg0.conf as exportWireGuardConfig writes it under K1
WgToken == EncryptWith("K1", Fill(SALT_LENGTH, 37), Fill(IV_LENGTH, 37), GivenKey)

\* the file handed to importWireGuardConfig: kind tells an unreadable file and
\* one without wireguard.config from the rest; lacks names the fields that
\* wireguard.config does not have; connectionName "" is a missing one
WgEnvelopes ==
    {[kind |-> k, lacks |-> {}, privateKey |-> <<>>, connectionName |-> ""] :
        k \in {"unreadable", "noWireguard"}}
    \cup {[kind |-> "ok", lacks |-> {}, privateKey |-> GivenKey, connectionName |-> n] :
             n \in {"", "wg0", "wg1"}}
    \cup {[kind |-> "ok", lacks |-> {}, privateKey |-> pk, connectionName |-> "wg0"] :
             pk \in {WgToken, BadToken}}
    \cup {[kind |-> "ok", lacks |-> {f}, connectionName |-> "wg0",
           privateKey |-> IF f = "privateKey" THEN <<>> ELSE GivenKey] :
             f \in MandatoryFields}

ImportCommands == {"stop", "disable", "write", "chmod"}

\* ${config.<field>} in the template of lines 214-223
Rendered(data, field, value) == IF field \in data.lacks THEN Undefined ELSE value
RenderedName(data, field, value) == IF field \in data.lacks THEN "undefined" ELSE value

\* importWireGuardConfig(filePath)
importWireGuardConfig ==
    \E data \in WgEnvelopes, fails \in {{}} \cup {{c} : c \in ImportCommands} :
    LET Failure(kind) == [success |-> FALSE, errors |-> <<kind>>]
        Last(result) == [NoTunnelOp EXCEPT !.op = "import", !.result = result,
                             !.lacks = data.lacks, !.before = Device]
        Nothing(result) ==
            /\ wgLast' = Last(result)
            /\ UNCHANGED <<wgFiles, wgEnabled, wgActive, wgIface>>
    IN  /\ UNCHANGED <<configDir, expPc, expList, expTasks, exportFile, wgConf, wgExport,
                       impResult, impLog, exports, moves, lastOp>>
        /\ UNCHANGED <<cipherVars, shVars, storeVars, osVars, envVars, statVars, netVars>>
        /\ IF data.kind = "unreadable"
           THEN Nothing(Failure("import")) /\ UNCHANGED <<keyFile, masterKey, initCount>>
           ELSE IF data.kind = "noWireguard"
           THEN Nothing(Failure("format")) /\ UNCHANGED <<keyFile, masterKey, initCount>>
           ELSE IF "privateKey" \in data.lacks
           THEN \* isEncrypted(undefined) throws
                Nothing(Failure("import")) /\ UNCHANGED <<keyFile, masterKey, initCount>>
           ELSE
             \E key \in IF IsEncrypted(data.privateKey)
                        THEN InitOutcomes(masterKey, keyFile)
                        ELSE {[mk |-> masterKey, kf |-> keyFile, inits |-> 0]} :
             \E plain \in {IF IsEncrypted(data.privateKey)
                           THEN DecryptWith(key.mk, data.privateKey)
                           ELSE Returned(data.privateKey)} :
                /\ masterKey' = key.mk
                /\ keyFile' = key.kf
                /\ initCount' = initCount + key.inits
                /\ IF ~plain.ok THEN Nothing(Failure("decrypt"))
                   ELSE IF "allowedIPs" \in data.lacks
                   THEN \* undefined.join throws
                        Nothing(Failure("import"))
                   ELSE
                     LET connectionName == IF data.connectionName = "" THEN "wg0"
                                           ELSE data.connectionName
                         text == ConfText(plain.text,
                                          Rendered(data, "address", Cidr(Ip10(2), 24)),
                                          RenderedName(data, "publicKey", "pub"),
                                          RenderedName(data, "endpoint", "host:51820"),
                                          Cidr(Ip10(0), 24))
                         \* systemctl stop and disable, their failures ignored
                         stopped == IF wgActive /\ "stop" \notin fails
                                    THEN [Device EXCEPT !.active = FALSE, !.iface = FALSE]
                                    ELSE Device
                         disabled == IF "disable" \notin fails
                                     THEN [stopped EXCEPT !.enabled = FALSE]
                                     ELSE stopped
                     IN  /\ wgEnabled' = disabled.enabled
                         /\ wgActive' = disabled.active
                         /\ wgIface' = disabled.iface
                         /\ IF "write" \in fails
                            THEN /\ wgFiles' = wgFiles
                                 /\ wgLast' = Last(Failure("import"))
                            ELSE /\ wgFiles' = WriteFile(wgFiles, connectionName, text)
                                 /\ wgLast' = Last(IF "chmod" \in fails
                                                   THEN Failure("import")
                                                   ELSE [success |-> TRUE])

TunnelNext == setup \/ stop \/ wg_quick_up \/ importWireGuardConfig

\* the device the tunnel operations start on: nothing set up yet, a key file
\* there
TunnelInit ==
    /\ wgFiles = <<>>
    /\ wgEnabled = FALSE
    /\ wgActive = FALSE
    /\ wgIface = FALSE
    /\ wgLast = NoTunnelOp
    /\ configDir = <<>>
    /\ keyFile = "K1"
    /\ masterKey = "null"
    /\ initCount = 0
    /\ expPc = "off"
    /\ expList = <<>>
    /\ expTasks = <<>>
    /\ exportFile = NoEnvelope
    /\ wgConf = NoWgConf
    /\ wgExport = NoWgEnvelope
    /\ impResult = NoResult
    /\ impLog = {}
    /\ exports = 0
    /\ moves = 0
    /\ lastOp = "none"

----------------------------------------------------------------------------
(* WireGuardService.getStatus *)

ChTab == 9

IsSpace(c) == c = ChSpace \/ c = ChTab \/ c = ChNewline

\* String.prototype.trim
Trim(s) ==
    LET solid == {i \in 1..Len(s) : ~IsSpace(s[i])}
    IN  IF solid = {} THEN <<>>
        ELSE SubSeq(s, Min(solid), CHOOSE i \in solid : \A j \in solid : j <= i)

\* where sub first occurs in s at or after position from, 0 if it does not
IndexOf(s, sub, from) ==
    LET hits == {p \in from..(Len(s) - Len(sub) + 1) : SubSeq(s, p, p + Len(sub) - 1) = sub}
    IN  IF hits = {} THEN 0 ELSE Min(hits)

\* the first two pieces of s.split(sub); a piece that is not there is Absent
Absent == <<NaN>>

SplitFirstTwo(s, sub) ==
    LET p == IndexOf(s, sub, 1)
    IN  IF p = 0 THEN <<s, Absent>>
        ELSE LET rest == SubSeq(s, p + Len(sub), Len(s))
                 q == IndexOf(rest, sub, 1)
             IN  <<SubSeq(s, 1, p - 1), IF q = 0 THEN rest ELSE SubSeq(rest, 1, q - 1)>>

\* s.replace(sub, ''): the first occurrence taken out
Removed(s, sub) ==
    LET p == IndexOf(s, sub, 1)
    IN  IF p = 0 THEN s ELSE SubSeq(s, 1, p - 1) \o SubSeq(s, p + Len(sub), Len(s))

\* "public key"
KeyPublicKey ==
    <<112, 117, 98, 108, 105, 99, 32, 107, 101, 121>>
\* "endpoint"
KeyEndpoint ==
    <<101, 110, 100, 112, 111, 105, 110, 116>>
\* "transfer"
KeyTransfer ==
    <<116, 114, 97, 110, 115, 102, 101, 114>>
\* "latest handshake"
KeyLatestHandshake ==
    <<108, 97, 116, 101, 115, 116, 32, 104, 97, 110, 100, 115, 104, 97, 107, 101>>
\* "received,"
StrReceivedComma ==
    <<114, 101, 99, 101, 105, 118, 101, 100, 44>>
\* "received"
StrReceived ==
    <<114, 101, 99, 101, 105, 118, 101, 100>>
\* "sent"
StrSent ==
    <<115, 101, 110, 116>>

\* lines as "wg show wg0" prints them
\* "interface: wg0"
LineInterface ==
    <<105, 110, 116, 101, 114, 102, 97, 99, 101, 58, 32, 119, 103, 48>>
\* "  public key: PUB="
LinePublicKey ==
    <<32, 32, 112, 117, 98, 108, 105, 99, 32, 107, 101, 121, 58, 32, 80, 85, 66, 61>>
\* "  endpoint: 1.2.3.4:51820"
LineEndpoint ==
    <<32, 32, 101, 110, 100, 112, 111, 105, 110, 116, 58, 32, 49, 46, 50, 46, 51, 46,
      52, 58, 53, 49, 56, 50, 48>>
\* "  latest handshake: 5 seconds ago"
LineHandshake ==
    <<32, 32, 108, 97, 116, 101, 115, 116, 32, 104, 97, 110, 100, 115, 104, 97, 107,
      101, 58, 32, 53, 32, 115, 101, 99, 111, 110, 100, 115, 32, 97, 103, 111>>
\* "  transfer: 1 KiB received, 2 KiB sent"
LineTransfer ==
    <<32, 32, 116, 114, 97, 110, 115, 102, 101, 114, 58, 32, 49, 32, 75, 105, 66, 32,
      114, 101, 99, 101, 105, 118, 101, 100, 44, 32, 50, 32, 75, 105, 66, 32, 115, 101,
      110, 116>>
\* "  persistent keepalive: every 25 seconds"
LineKeepalive ==
    <<32, 32, 112, 101, 114, 115, 105, 115, 116, 101, 110, 116, 32, 107, 101, 101, 112,
      97, 108, 105, 118, 101, 58, 32, 101, 118, 101, 114, 121, 32, 50, 53, 32, 115,
      101, 99, 111, 110, 100, 115>>

Inactive ==
    [active |-> FALSE, publicKey |-> Absent, endpoint |-> Absent, transferRx |-> Absent,
     transferTx |-> Absent, lastHandshake |-> Absent]

\* const [key, value] = line.split(':').map(s => s.trim())
KeyOf(line) == Trim(Split(line, ChColon)[1])
ValueOf(line) ==
    LET parts == Split(line, ChColon)
    IN  IF Len(parts) < 2 THEN Absent ELSE Trim(parts[2])

\* the callback of lines.forEach on one line; thrown is set where it throws
StatusLine(status, line) ==
    LET key == KeyOf(line)
        value == ValueOf(line)
    IN  IF status.thrown THEN status
        ELSE IF key = KeyPublicKey THEN [status EXCEPT !.publicKey = value]
        ELSE IF key = KeyEndpoint THEN [status EXCEPT !.endpoint = value]
        ELSE IF key = KeyTransfer
        THEN IF value = Absent THEN [status EXCEPT !.thrown = TRUE]
             ELSE LET halves == SplitFirstTwo(value, StrReceivedComma)
                      rx == Trim(halves[1])
                      tx == IF halves[2] = Absent THEN Absent ELSE Trim(halves[2])
                  IN  IF tx = Absent THEN [status EXCEPT !.thrown = TRUE]
                      ELSE [status EXCEPT !.transferRx = Trim(Removed(rx, StrReceived)),
                                          !.transferTx = Trim(Removed(tx, StrSent))]
        ELSE IF key = KeyLatestHandshake THEN [status EXCEPT !.lastHandshake = value]
        ELSE status

RECURSIVE StatusLines(_, _, _)
StatusLines(status, lines, i) ==
    IF i > Len(lines) THEN status
    ELSE StatusLines(StatusLine(status, lines[i]), lines, i + 1)

\* getStatus() when "sudo wg show wg0" exits non-zero (failed) or prints text
getStatus(failed, text) ==
    LET stdout == Trim(text)
        parsed == StatusLines([Inactive EXCEPT !.active = TRUE] @@ [thrown |-> FALSE],
                              Split(stdout, ChNewline), 1)
    IN  IF failed \/ stdout = <<>> \/ parsed.thrown THEN Inactive
        ELSE [f \in DOMAIN Inactive |-> parsed[f]]

MaxLines == 3

OutputLines ==
    {LineInterface, LinePublicKey, LineEndpoint, LineHandshake, LineTransfer, LineKeepalive}

StatIdle ==
    /\ wgOutput = [failed |-> TRUE, lines |-> <<>>]
    /\ wgStatus = Inactive
    /\ stPc = "off"

StatusInit ==
    /\ wgOutput \in {[failed |-> TRUE, lines |-> <<>>]}
                    \cup {[failed |-> FALSE, lines |-> l] :
                             l \in SeqsUpTo(OutputLines, MaxLines)}
    /\ wgStatus = Inactive
    /\ stPc = "fresh"

\* the status call
StatusCall ==
    /\ stPc = "fresh"
    /\ wgStatus' = getStatus(wgOutput.failed, Join(wgOutput.lines, ChNewline))
    /\ stPc' = "done"
    /\ UNCHANGED wgOutput
    /\ UNCHANGED <<cipherVars, pipeVars, shVars, storeVars, osVars, envVars, wgVars, netVars>>

----------------------------------------------------------------------------
(* NetworkControl.getStatus: the device table and the probes after it *)

StrWlan0 == <<119, 108, 97, 110, 48>>  \* "wlan0"
StrWifi == <<119, 105, 102, 105>>  \* "wifi"
StrEth0 == <<101, 116, 104, 48>>  \* "eth0"
StrEthernet == <<101, 116, 104, 101, 114, 110, 101, 116>>  \* "ethernet"
StrConnected == <<99, 111, 110, 110, 101, 99, 116, 101, 100>>  \* "connected"
StrDisconnected == <<100, 105, 115, 99, 111, 110, 110, 101, 99, 116, 101, 100>>  \* "disconnected"
StrUnknown == <<117, 110, 107, 110, 111, 119, 110>>  \* "unknown"
StrDashes == <<45, 45>>  \* "--"
StrYes == <<121, 101, 115, 58>>  \* "yes:"
StrStar == <<42>>  \* "*"
StrEthernetConnection == <<69, 116, 104, 101, 114, 110, 101, 116, 32, 67, 111, 110, 110, 101, 99, 116, 105, 111, 110>>  \* "Ethernet Connection"
StrEscapedColon == <<92, 58>>  \* "\:"

\* lines of "nmcli device status": DEVICE, TYPE, STATE, CONNECTION
\* "DEVICE  TYPE  STATE  CONNECTION"
LineHeader ==
    <<68, 69, 86, 73, 67, 69, 32, 32, 84, 89, 80, 69, 32, 32, 83, 84, 65, 84,
      69, 32, 32, 67, 79, 78, 78, 69, 67, 84, 73, 79, 78>>
\* "wlan0  wifi  connected  Home"
LineWifiUp ==
    <<119, 108, 97, 110, 48, 32, 32, 119, 105, 102, 105, 32, 32, 99, 111,
      110, 110, 101, 99, 116, 101, 100, 32, 32, 72, 111, 109, 101>>
\* "wlan0  wifi  disconnected  --"
LineWifiDown ==
    <<119, 108, 97, 110, 48, 32, 32, 119, 105, 102, 105, 32, 32, 100, 105,
      115, 99, 111, 110, 110, 101, 99, 116, 101, 100, 32, 32, 45, 45>>
\* "eth0  ethernet  connected  Wired 1"
LineEthUp ==
    <<101, 116, 104, 48, 32, 32, 101, 116, 104, 101, 114, 110, 101, 116, 32,
      32, 99, 111, 110, 110, 101, 99, 116, 101, 100, 32, 32, 87, 105, 114,
      101, 100, 32, 49>>
\* "eth0  ethernet  disconnected  --"
LineEthDown ==
    <<101, 116, 104, 48, 32, 32, 101, 116, 104, 101, 114, 110, 101, 116, 32,
      32, 100, 105, 115, 99, 111, 110, 110, 101, 99, 116, 101, 100, 32, 32,
      45, 45>>
\* "p2p-dev-wlan0  wifi-p2p  disconnected  --"
LineP2p ==
    <<112, 50, 112, 45, 100, 101, 118, 45, 119, 108, 97, 110, 48, 32, 32,
      119, 105, 102, 105, 45, 112, 50, 112, 32, 32, 100, 105, 115, 99, 111,
      110, 110, 101, 99, 116, 101, 100, 32, 32, 45, 45>>
\* "lo  loopback  unmanaged  --"
LineLo ==
    <<108, 111, 32, 32, 108, 111, 111, 112, 98, 97, 99, 107, 32, 32, 117,
      110, 109, 97, 110, 97, 103, 101, 100, 32, 32, 45, 45>>

DeviceLines == {LineHeader, LineWifiUp, LineWifiDown, LineEthUp, LineEthDown, LineP2p, LineLo}

\* what the later commands print when they succeed
\* nmcli -t -f ACTIVE,SSID,SIGNAL,FREQ,RATE,SECURITY dev wifi list
\* "no:Cafe:40:2412 MHz:54 Mbit/s:WPA1 WPA2\nyes:Home:70:2437 MHz:130 Mbit/s:WPA2"
WifiList ==
    <<110, 111, 58, 67, 97, 102, 101, 58, 52, 48, 58, 50, 52, 49, 50, 32, 77,
      72, 122, 58, 53, 52, 32, 77, 98, 105, 116, 47, 115, 58, 87, 80, 65, 49,
      32, 87, 80, 65, 50, 10, 121, 101, 115, 58, 72, 111, 109, 101, 58, 55,
      48, 58, 50, 52, 51, 55, 32, 77, 72, 122, 58, 49, 51, 48, 32, 77, 98,
      105, 116, 47, 115, 58, 87, 80, 65, 50>>
\* nmcli -f SIGNAL,FREQ,RATE,SECURITY device wifi list --rescan no
\* "SIGNAL  FREQ  RATE  SECURITY\n70  2437 MHz  130 Mbit/s  WPA2"
WifiListTable ==
    <<83, 73, 71, 78, 65, 76, 32, 32, 70, 82, 69, 81, 32, 32, 82, 65, 84, 69,
      32, 32, 83, 69, 67, 85, 82, 73, 84, 89, 10, 55, 48, 32, 32, 50, 52, 51,
      55, 32, 77, 72, 122, 32, 32, 49, 51, 48, 32, 77, 98, 105, 116, 47, 115,
      32, 32, 87, 80, 65, 50>>
\* nmcli -g GENERAL.HWADDR dev show <interface>
\* "DC:A6:32:01:02:03"
HwAddr ==
    <<68, 67, 58, 65, 54, 58, 51, 50, 58, 48, 49, 58, 48, 50, 58, 48, 51>>
\* ip -brief link show <interface>, after the interface name
\* "  UP  dc:a6:32:01:02:03 <UP>"
IpLinkTail ==
    <<32, 32, 85, 80, 32, 32, 100, 99, 58, 97, 54, 58, 51, 50, 58, 48, 49,
      58, 48, 50, 58, 48, 51, 32, 60, 85, 80, 62>>
\* nmcli -g IP4.ADDRESS,IP4.GATEWAY connection show <name>
\* "192.168.1.5/24\n192.168.1.1"
IpConfig ==
    <<49, 57, 50, 46, 49, 54, 56, 46, 49, 46, 53, 47, 50, 52, 10, 49, 57, 50,
      46, 49, 54, 56, 46, 49, 46, 49>>

\* the commands of a call
Probes == {"status", "wifi", "hwaddr", "iplink", "ip"}

\* String.prototype.startsWith
StartsWith(line, prefix) ==
    Len(line) >= Len(prefix) /\ SubSeq(line, 1, Len(prefix)) = prefix

\* String.prototype.includes
Includes(line, part) == IndexOf(line, part, 1) # 0

RECURSIVE SplitRuns(_, _)
\* s.split(/\s{n,}/): cut at every run of n or more white-space characters
SplitRuns(s, n) ==
    LET runStart(p) == IsSpace(s[p]) /\ (p = 1 \/ ~IsSpace(s[p - 1]))
        runLen(p) == Min({q \in p..(Len(s) + 1) : q = Len(s) + 1 \/ ~IsSpace(s[q])}) - p
        seps == {p \in 1..Len(s) : runStart(p) /\ runLen(p) >= n}
    IN  IF seps = {} THEN <<s>>
        ELSE LET p == Min(seps)
             IN  <<SubSeq(s, 1, p - 1)>> \o SplitRuns(SubSeq(s, p + runLen(p), Len(s)), n)

RECURSIVE ReplaceAll(_, _, _)
\* s.replace(/sub/g, by)
ReplaceAll(s, sub, by) ==
    LET p == IndexOf(s, sub, 1)
    IN  IF p = 0 THEN s
        ELSE SubSeq(s, 1, p - 1) \o by
                 \o ReplaceAll(SubSeq(s, p + Len(sub), Len(s)), sub, by)

\* element k of an array, Absent (undefined) where there is none
Element(parts, k) == IF k <= Len(parts) THEN parts[k] ELSE Absent

\* parts.slice(3).join(' ')
SliceJoin(parts) == Join(SubSeq(parts, 4, Len(parts)), ChSpace)

\* the words of a list, written with one space between them
Words(s) == Join(SelectSeq(SplitRuns(Trim(s), 1), LAMBDA w : w # <<>>), ChSpace)

IsHex(c) == IsDigit(c) \/ (c >= 97 /\ c <= 102) \/ (c >= 65 /\ c <= 70)

\* text.match(/([0-9a-f]{2}:){5}[0-9a-f]{2}/i): match[0], Absent without a match
MatchMac(text) ==
    LET fits(p) == \A k \in 0..16 :
                      IF k % 3 = 2 THEN text[p + k] = ChColon ELSE IsHex(text[p + k])
        hits == {p \in 1..(Len(text) - 16) : fits(p)}
    IN  IF hits = {} THEN Absent ELSE SubSeq(text, Min(hits), Min(hits) + 16)

\* the position of the first line that passes the test, 0 if none does
FindLine(lines, Test(_)) ==
    LET hits == {i \in 1..Len(lines) : Test(lines[i])}
    IN  IF hits = {} THEN 0 ELSE Min(hits)

\* the object getStatus resolves to; a field that is not set, or set to
\* undefined, is Absent.  signal is <<n>>, security its types joined by a space
Report(connected, mode, ssid, wifi, ip, macAddress, interfaceName) ==
    [connected |-> connected, mode |-> mode, ssid |-> ssid,
     signal |-> wifi.signal, freq |-> wifi.freq, bitrate |-> wifi.bitrate,
     security |-> wifi.security, ipAddress |-> ip.ipAddress, gateway |-> ip.gateway,
     macAddress |-> macAddress, interfaceName |-> interfaceName]

NoWifiDetail == [signal |-> Absent, freq |-> Absent, bitrate |-> Absent, security |-> Absent]
NoIpDetail == [ipAddress |-> Absent, gateway |-> Absent]

\* { connected, mode } and nothing else
Bare(connected, mode) ==
    Report(connected, mode, Absent, NoWifiDetail, NoIpDetail, Absent, Absent)

\* what a call hands back: the object and the commands it ran
Outcome(status, probes) == [status |-> status, probes |-> probes]

\* devStatusOutput.split('\n'), executeCommand having trimmed stdout
TableLines(table) == Split(Trim(Join(table, ChNewline)), ChNewline)

\* const [ipLine, gatewayLine] = ipConfig.split('\n') and the two split('/')[0]
IpDetail(ipConfig) ==
    LET rows == Split(ipConfig, ChNewline)
        first(row) == IF row = Absent \/ row = <<>> THEN Absent ELSE Split(row, ChSlash)[1]
    IN  [ipAddress |-> first(Element(rows, 1)), gateway |-> first(Element(rows, 2))]

\* lines 244-255: the active line of the terse wifi list
WifiDetail(list) ==
    LET rows == Split(list, ChNewline)
        at == FindLine(rows, LAMBDA line : StartsWith(line, StrYes))
    IN  IF at = 0 THEN NoWifiDetail
        ELSE LET parts == Split(rows[at], ChColon)
                 signal == ParseInt(Piece(parts, 3))
             IN  IF Len(parts) < 4
                 THEN \* parts[3].replace throws; signal is set by then
                      [NoWifiDetail EXCEPT !.signal = IF signal = NaN THEN Absent
                                                      ELSE <<signal>>]
                 ELSE [signal |-> IF signal = NaN THEN Absent ELSE <<signal>>,
                       freq |-> ReplaceAll(parts[4], StrEscapedColon, <<ChColon>>),
                       bitrate |-> Element(parts, 5),
                       security |-> Words(Piece(parts, 6))]

\* lines 261-273 and 207-216: the hardware address from nmcli, else from
\* ip link; thrown tells that the fallback itself failed
MacLookup(interfaceName, fail) ==
    IF "hwaddr" \notin fail
    THEN [macAddress |-> Trim(HwAddr), probes |-> {"hwaddr"}, thrown |-> FALSE]
    ELSE IF "iplink" \notin fail
    THEN [macAddress |-> MatchMac(interfaceName \o IpLinkTail),
          probes |-> {"hwaddr", "iplink"}, thrown |-> FALSE]
    ELSE [macAddress |-> Absent, probes |-> {"hwaddr", "iplink"}, thrown |-> TRUE]

\* lines 200-226: the branch of an ethernet line
WiredStatus(ethDeviceLine, fail) ==
    LET ethParts == SplitRuns(Trim(ethDeviceLine), 2)
        ethInterfaceName == ethParts[1]
        ethActiveConnectionName ==
            IF Len(ethParts) > 3 THEN SliceJoin(ethParts) ELSE StrEthernetConnection
        mac == MacLookup(ethInterfaceName, fail)
        \* line 225, the catch of the one try around both lookups
        caught == Report(TRUE, StrEthernet, ethActiveConnectionName, NoWifiDetail,
                         NoIpDetail, Absent, ethInterfaceName)
    IN  IF mac.thrown THEN Outcome(caught, {"status"} \cup mac.probes)
        ELSE IF "ip" \in fail THEN Outcome(caught, {"status", "ip"} \cup mac.probes)
        ELSE Outcome(Report(TRUE, StrEthernet, ethActiveConnectionName, NoWifiDetail,
                            IpDetail(IpConfig), mac.macAddress, ethInterfaceName),
                     {"status", "ip"} \cup mac.probes)

\* lines 231-298: the branch of a wifi line
WirelessStatus(wifiDeviceLine, fail) ==
    LET devParts == SplitRuns(Trim(wifiDeviceLine), 2)
        interfaceName == devParts[1]
        type == Element(devParts, 2)
        state == Element(devParts, 3)
        activeConnectionName == IF Len(devParts) > 3 THEN SliceJoin(devParts) ELSE Absent
        isConnected == /\ state = StrConnected
                       /\ activeConnectionName \notin {Absent, <<>>}
                       /\ activeConnectionName # StrDashes
        mac == MacLookup(interfaceName, fail)
    IN  IF ~isConnected
        THEN Outcome(Report(FALSE, IF type = StrWifi THEN StrDisconnected ELSE type,
                            Absent, NoWifiDetail, NoIpDetail, Absent, interfaceName),
                     {"status"})
        ELSE Outcome(Report(TRUE, StrWifi,
                            ReplaceAll(activeConnectionName, StrEscapedColon, <<ChColon>>),
                            IF "wifi" \in fail THEN NoWifiDetail ELSE WifiDetail(WifiList),
                            IF "ip" \in fail THEN NoIpDetail ELSE IpDetail(IpConfig),
                            mac.macAddress, interfaceName),
                     {"status", "wifi", "ip"} \cup mac.probes)

\* line 195: the test of find for the wifi line
IsWifiDeviceLine(line) == StartsWith(line, StrWlan0) \/ StartsWith(line, StrWifi)

\* line 199: the test of find for the ethernet line
IsEthDeviceLine(line) ==
    /\ StartsWith(line, StrEth0) \/ StartsWith(line, StrEthernet)
    /\ Includes(line, StrConnected)

\* NetworkControl.getStatus of part_003, given the device table and the
\* commands that fail
DeviceStatus(table, fail) ==
    IF "status" \in fail THEN Outcome(Bare(FALSE, StrUnknown), {"status"})
    ELSE LET lines == TableLines(table)
             wifiAt == FindLine(lines, IsWifiDeviceLine)
             ethAt == FindLine(lines, IsEthDeviceLine)
         IN  IF wifiAt # 0 THEN WirelessStatus(lines[wifiAt], fail)
             ELSE IF ethAt # 0 THEN WiredStatus(lines[ethAt], fail)
             ELSE Outcome(Bare(FALSE, StrDisconnected), {"status"})

\* lines 117-129 of the service build: the line of the current network in the
\* table of networks, marked with a star
CurrentNetwork(list) ==
    LET rows == Tail(Split(list, ChNewline))
        at == FindLine(rows, LAMBDA line : Includes(line, StrStar))
    IN  IF at = 0 THEN NoWifiDetail
        ELSE LET cells == SplitRuns(Trim(Removed(Trim(rows[at]), StrStar)), 1)
                 signal == ParseInt(Piece(cells, 1))
             IN  [signal |-> <<signal>>, freq |-> Element(cells, 2),
                  bitrate |-> Element(cells, 3),
                  security |-> Join(SubSeq(cells, 4, Len(cells)), ChSpace)]

\* NetworkControl.getStatus of network-control.service.ts: one try around
\* the three commands
DeviceStatus_service(table, fail) ==
    IF "status" \in fail THEN Outcome(Bare(FALSE, StrUnknown), {"status"})
    ELSE LET lines == TableLines(table)
             wifiAt == FindLine(lines, LAMBDA line : Includes(line, StrWifi))
         IN  IF wifiAt = 0 THEN Outcome(Bare(FALSE, StrDisconnected), {"status"})
             ELSE LET cells == SplitRuns(lines[wifiAt], 1)
                      type == Element(cells, 2)
                      state == Element(cells, 3)
                      connection == Element(cells, 4)
                      rows == Split(IpConfig, ChNewline)
                  IN  IF state # StrConnected THEN Outcome(Bare(FALSE, type), {"status"})
                      ELSE IF "wifi" \in fail
                      THEN Outcome(Bare(FALSE, StrUnknown), {"status", "wifi"})
                      ELSE IF "ip" \in fail
                      THEN Outcome(Bare(FALSE, StrUnknown), {"status", "wifi", "ip"})
                      ELSE Outcome(Report(TRUE, type,
                                          IF connection # StrDashes THEN connection
                                          ELSE Absent,
                                          CurrentNetwork(WifiListTable),
                                          [ipAddress |-> Split(rows[1], ChSlash)[1],
                                           gateway |-> IF Len(rows) > 1
                                                       THEN Split(rows[2], ChSlash)[1]
                                                       ELSE Absent],
                                          Absent, Absent),
                                   {"status", "wifi", "ip"})

MaxDevices == 2

NetIdle ==
    /\ nsTable = <<>>
    /\ nsFail = {}
    /\ nsStatus = Bare(FALSE, StrUnknown)
    /\ nsProbes = {}
    /\ nsLast = "none"

\* any device table, any set of failing commands
NetInit ==
    /\ nsTable \in SeqsUpTo(DeviceLines, MaxDevices)
    /\ nsFail \in SUBSET Probes
    /\ nsStatus = Bare(FALSE, StrUnknown)
    /\ nsProbes = {}
    /\ nsLast = "none"

\* the status call of the newer build
NetworkControl_getStatus ==
    /\ nsLast = "none"
    /\ \E out \in {DeviceStatus(nsTable, nsFail)} :
          /\ nsStatus' = out.status
          /\ nsProbes' = out.probes
    /\ nsLast' = "part_003"
    /\ UNCHANGED <<nsTable, nsFail>>
    /\ UNCHANGED <<cipherVars, pipeVars, shVars, storeVars, osVars, envVars, wgVars, statVars>>

\* the status call of the service build
NetworkControl_getStatus_service ==
    /\ nsLast = "none"
    /\ \E out \in {DeviceStatus_service(nsTable, nsFail)} :
          /\ nsStatus' = out.status
          /\ nsProbes' = out.probes
    /\ nsLast' = "service"
    /\ UNCHANGED <<nsTable, nsFail>>
    /\ UNCHANGED <<cipherVars, pipeVars, shVars, storeVars, osVars, envVars, wgVars, statVars>>

NetNext == NetworkControl_getStatus \/ NetworkControl_getStatus_service

\* everything this module adds to the device at rest
LaterIdle == EnvIdle /\ WgIdle /\ StatIdle /\ NetIdle

----------------------------------------------------------------------------
\* the cipher harness at rest
CipherIdle ==
    /\ cText = <<>>
    /\ cKey = "null"
    /\ cToken = <<>>
    /\ cDecKey = "null"
    /\ cResult = Thrown
    /\ cOrigin = "none"
    /\ cPc = "off"

Init == PipeInit /\ CipherIdle /\ ShIdle /\ StoreIdle /\ OsIdle /\ LaterIdle

Next ==
    \/ ExportStart
    \/ \E i \in 1..Len(expTasks) : TaskRead(i)
    \/ \E i \in 1..Len(expTasks) : TaskOpen(i)
    \/ \E i \in 1..Len(expTasks) : TaskWrite(i)
    \/ ExportFinish
    \/ Import
    \/ ExportTunnel
    \/ Restart
    \/ MoveToDevice

Spec == Init /\ [][Next]_vars

ShInit == ShIdle /\ PipeIdle /\ CipherIdle /\ StoreIdle /\ OsIdle /\ LaterIdle

ShNext == handle_setup \/ activate_config \/ deduplicate_saved_configs

SpecSh == ShInit /\ [][ShNext]_vars

\* the JSON store on its own
StoreStart == StoreInit /\ CipherIdle /\ ShIdle /\ OsIdle /\ LaterIdle

SpecStore == StoreStart /\ [][StoreNext]_vars

\* the JSON store as the commands reach it: the default is set by boot-setup only
BootStart == StoreInit /\ CipherIdle /\ ShIdle /\ OsIdle /\ LaterIdle

SpecBoot == BootStart /\ [][BootNext]_vars

\* listings of the store, before and after a default is set
ListStart == StoreInit /\ CipherIdle /\ ShIdle /\ OsIdle /\ LaterIdle

SpecList == ListStart /\ [][ListNext]_vars

\* the OS profiles on their own
OsStart == OsInit /\ PipeIdle /\ CipherIdle /\ ShIdle /\ StoreIdle /\ LaterIdle

SpecOs == OsStart /\ [][OsNext]_vars

----------------------------------------------------------------------------
(* The cipher exercised on bounded inputs: encrypt, then decrypt of the     *)
(* token, of a damaged copy of it, or of a string that never was a token.  *)

MaxTextLen == 3
MaxTamperOffset == 1

\* ':' , 'h' and a two-byte UTF-8 character
TextAlphabet == {ChColon, 104, 233}

RECURSIVE StringsUpTo(_)
StringsUpTo(n) ==
    IF n = 0 THEN {<<>>}
    ELSE LET shorter == StringsUpTo(n - 1)
         IN  shorter \cup {Append(t, c) : t \in shorter, c \in TextAlphabet}

Texts == StringsUpTo(MaxTextLen)

\* characters that are neither ':' nor base64: '!' and ' '
JunkChars == {33, ChSpace}

InsertAt(s, p, ch) == SubSeq(s, 1, p - 1) \o <<ch>> \o SubSeq(s, p, Len(s))
ReplaceAt(s, p, ch) == [s EXCEPT ![p] = ch]

\* index in the joined string of the first character of segment k
RECURSIVE SegmentStart(_, _)
SegmentStart(parts, k) ==
    IF k = 1 THEN 1 ELSE SegmentStart(parts, k - 1) + Len(parts[k - 1]) + 1

\* a token with a non-base64 character put into one of its segments
WithJunk(tok) ==
    LET parts == Split(tok, ChColon) IN
    UNION {{InsertAt(tok, SegmentStart(parts, k) + o, ch) :
                o \in {x \in 0..MaxTamperOffset : x <= Len(parts[k])},
                ch \in JunkChars} : k \in 1..Len(parts)}

\* a token with one base64 character changed into another
WithFlip(tok) ==
    LET parts == Split(tok, ChColon) IN
    {ReplaceAt(tok, SegmentStart(parts, k) + o,
               B64Char((Unbase64(parts[k][o + 1]) + 1) % 64)) :
        k \in {j \in 1..Len(parts) : Len(parts[j]) > MaxTamperOffset
                                        /\ \A o \in 0..MaxTamperOffset :
                                              Unbase64(parts[j][o + 1]) >= 0},
        o \in 0..MaxTamperOffset}

\* a token with a segment taken away or one too many
WithSegments(tok) ==
    LET parts == Split(tok, ChColon) IN
    {Join(SubSeq(parts, 1, Len(parts) - 1), ChColon), tok \o <<ChColon, 65, 65>>}

CipherInit ==
    /\ cText \in Texts
    /\ cKey \in Keys
    /\ cToken = <<>>
    /\ cDecKey = "null"
    /\ cResult = Thrown
    /\ cOrigin = "none"
    /\ cPc = "fresh"

\* encrypt(text) in a process whose master key is cKey
CEncrypt ==
    /\ cPc = "fresh"
    /\ \E salt \in RandomBytes(SALT_LENGTH), iv \in RandomBytes(IV_LENGTH) :
          cToken' = EncryptWith(cKey, salt, iv, cText)
    /\ cOrigin' = "encrypt"
    /\ cPc' = "token"
    /\ UNCHANGED <<cText, cKey, cDecKey, cResult>>
    /\ UNCHANGED <<pipeVars, shVars, storeVars, osVars, envVars, wgVars, statVars, netVars>>

\* the token is damaged between encrypt and decrypt
CTamper ==
    /\ cPc = "token"
    /\ cOrigin = "encrypt"
    /\ \/ cToken' \in WithJunk(cToken) /\ cOrigin' = "junk"
       \/ cToken' \in WithFlip(cToken) /\ cOrigin' = "flip"
       \/ cToken' \in WithSegments(cToken) /\ cOrigin' = "segments"
    /\ UNCHANGED <<cText, cKey, cDecKey, cResult, cPc>>
    /\ UNCHANGED <<pipeVars, shVars, storeVars, osVars, envVars, wgVars, statVars, netVars>>

\* decrypt is handed a string that encrypt never produced
CForeign ==
    /\ cPc = "fresh"
    /\ cToken' = cText
    /\ cOrigin' = "foreign"
    /\ cPc' = "token"
    /\ UNCHANGED <<cText, cKey, cDecKey, cResult>>
    /\ UNCHANGED <<pipeVars, shVars, storeVars, osVars, envVars, wgVars, statVars, netVars>>

\* decrypt(cToken) in a process whose master key is k
CDecrypt ==
    /\ cPc = "token"
    /\ \E k \in Keys :
          /\ cDecKey' = k
          /\ cResult' = DecryptWith(k, cToken)
    /\ cPc' = "decrypted"
    /\ UNCHANGED <<cText, cKey, cToken, cOrigin>>
    /\ UNCHANGED <<pipeVars, shVars, storeVars, osVars, envVars, wgVars, statVars, netVars>>

CipherNext == CEncrypt \/ CTamper \/ CForeign \/ CDecrypt

CipherStart == CipherInit /\ PipeIdle /\ ShIdle /\ StoreIdle /\ OsIdle /\ LaterIdle

SpecCipher == CipherStart /\ [][CipherNext]_vars

\* importNetworkConfigs on any file
ImportStart ==
    ImportInit /\ CipherIdle /\ ShIdle /\ StoreIdle /\ OsIdle /\ WgIdle /\ StatIdle /\ NetIdle

SpecImport == ImportStart /\ [][importNetworkConfigs]_vars

\* the tunnel operations
TunnelStart ==
    /\ TunnelInit /\ CipherIdle /\ ShIdle /\ StoreIdle /\ OsIdle /\ EnvIdle /\ StatIdle
    /\ NetIdle

SpecTunnel == TunnelStart /\ [][TunnelNext]_vars

\* getStatus over the outputs of the probe
StatusStart ==
    /\ StatusInit /\ PipeIdle /\ CipherIdle /\ ShIdle /\ StoreIdle /\ OsIdle /\ EnvIdle
    /\ WgIdle /\ NetIdle

SpecStatus == StatusStart /\ [][StatusCall]_vars

\* the status call of NetworkControl on its own
NetStart ==
    /\ NetInit /\ PipeIdle /\ CipherIdle /\ ShIdle /\ StoreIdle /\ OsIdle /\ EnvIdle
    /\ WgIdle /\ StatIdle

SpecNet == NetStart /\ [][NetNext]_vars

----------------------------------------------------------------------------
(* Claims about the cipher *)

\* C3: decrypt(encrypt(x)) returns exactly x under the same master key, for
\* every string x, the empty one and those containing ':' included.
C3_RoundTrip ==
    (cPc = "decrypted" /\ cOrigin = "encrypt" /\ cDecKey = cKey)
        => cResult = Returned(cText)

C3_Witness ==
    /\ cPc = "decrypted" /\ cOrigin = "encrypt" /\ cDecKey = cKey
    /\ Len(cText) = MaxTextLen
    /\ cText[1] = ChColon /\ cText[2] = 233
    /\ cResult.ok

\* a token one of whose segments holds a character outside base64
Malformed(t) ==
    \E i \in 1..Len(t) : t[i] # ChColon /\ t[i] # ChEquals /\ Unbase64(t[i]) < 0

\* the tag carried by a four-segment token is not the tag of its ciphertext
\* under the key derived from master and its salt
TagMismatch(master, t) ==
    LET parts == Split(t, ChColon) IN
    /\ Len(parts) = 4
    /\ Base64Decode(parts[3]) #
         GcmTag(Pbkdf2(master, Base64Decode(parts[2])), Base64Decode(parts[1]),
                Base64Decode(parts[4]))

\* C5: decrypt(t) throws, and returns no plaintext, whenever t is malformed,
\* does not have exactly four colon-separated segments, or carries a tag that
\* does not match its ciphertext and key.
C5_RejectsBadTokens ==
    (/\ cPc = "decrypted"
     /\ \/ Malformed(cToken)
        \/ Len(Split(cToken, ChColon)) # 4
        \/ TagMismatch(cDecKey, cToken))
        => ~cResult.ok

----------------------------------------------------------------------------
(* Claims about the export/import pipeline *)

\* index of the entry of the export file saved under id, 0 if there is none
EntryOf(id) ==
    IF \E i \in 1..Len(exportFile.networks) : exportFile.networks[i].id = id
    THEN CHOOSE i \in 1..Len(exportFile.networks) : exportFile.networks[i].id = id
    ELSE 0

\* the import result carries an error for id
Reported(id) == \E k \in 1..Len(impResult.errors) : impResult.errors[k].id = id

\* C1: after exportNetworkConfigs and importNetworkConfigs of the file it
\* wrote, every profile that was stored with a non-empty password p, whose
\* token was made with the master key the importing process holds, and whose
\* save the import did not report as failed, is stored under the same id with
\* password exactly p.
C1_ExportImportRoundTrip ==
    (lastOp = "import" /\ exportFile.exists) =>
        \A i \in 1..Len(exportFile.networks) :
            LET id == exportFile.networks[i].id IN
            (/\ exportFile.plain[i] # <<>>
             /\ exportFile.keys[i] = masterKey
             /\ ~Reported(id))
            => /\ id \in DOMAIN configDir
               /\ configDir[id] = WithPassword(exportFile.networks[i].config,
                                               exportFile.plain[i])

\* the file was carried to a device that holds the same key, imported there,
\* and the password containing a colon is back in the directory
C1_Witness ==
    /\ lastOp = "import"
    /\ moves = 1
    /\ \E i \in 1..Len(exportFile.networks) :
          /\ exportFile.plain[i] = <<104, ChColon>>
          /\ exportFile.keys[i] = masterKey
          /\ exportFile.networks[i].id \in DOMAIN configDir
          /\ configDir[exportFile.networks[i].id].password = exportFile.plain[i]

\* every character of s is of the base64 alphabet or the padding character
IsBase64Text(s) == \A i \in 1..Len(s) : Unbase64(s[i]) >= 0 \/ s[i] = ChEquals

\* an EncryptedToken: iv:salt:tag:ciphertext, each base64, iv, salt and tag of
\* the cipher's lengths
IsToken(t) ==
    LET parts == Split(t, ChColon) IN
    /\ Len(parts) = 4
    /\ \A k \in 1..4 : IsBase64Text(parts[k])
    /\ Len(Base64Decode(parts[1])) = IV_LENGTH
    /\ Len(Base64Decode(parts[2])) = SALT_LENGTH
    /\ Len(Base64Decode(parts[3])) = TAG_LENGTH

\* C2: every non-empty profile password in the file exportNetworkConfigs
\* wrote, and the private key in the file exportWireGuardConfig wrote, is an
\* encrypted token and differs from the plaintext it was made from.
C2_ExportsOnlyTokens ==
    /\ exportFile.exists =>
          \A i \in 1..Len(exportFile.networks) :
              exportFile.plain[i] # <<>> =>
                  /\ IsToken(exportFile.networks[i].config.password)
                  /\ exportFile.networks[i].config.password # exportFile.plain[i]
    /\ wgExport.exists =>
          /\ IsToken(wgExport.privateKey)
          /\ wgExport.privateKey # wgExport.plain

\* both files are written, the profile export with two passwords in it
C2_Witness ==
    /\ exportFile.exists
    /\ wgExport.exists
    /\ wgExport.plain # <<>>
    /\ Len(exportFile.networks) = 2
    /\ \A i \in 1..2 : exportFile.plain[i] # <<>> /\ IsToken(exportFile.networks[i].config.password)

\* C4: in one process the master key is loaded or generated at most once;
\* when an export has finished, every token in its file was made with the
\* key the process holds, and that key is the content of the key file.
C4_KeyMaterializedOnce ==
    /\ initCount <= 1
    /\ lastOp = "export" =>
          /\ \A i \in 1..Len(exportFile.networks) :
                exportFile.plain[i] # <<>> => exportFile.keys[i] = masterKey
          /\ masterKey # "null" => keyFile = masterKey

\* C10: after importNetworkConfigs, every entry whose password failed to
\* decrypt has an error in the returned errors list, and, unless its save
\* was reported as failed, is stored with the password field of the file.
C10_DecryptFailureRecorded ==
    lastOp = "import" =>
        \A id \in impLog :
            /\ Reported(id)
            /\ ~Reported(id) =>
                  /\ id \in DOMAIN configDir
                  /\ configDir[id] = exportFile.networks[EntryOf(id)].config

----------------------------------------------------------------------------
(* Claims about the saved configurations of workhive.sh *)

C7_ExplicitNameOverwrites ==
    (shLast.op = "save" /\ shLast.named /\ shLast.base \in DOMAIN shLast.before) =>
        /\ shLast.id = shLast.base
        /\ DOMAIN shDir = DOMAIN shLast.before

----------------------------------------------------------------------------
(* Claims about deduplication *)

\* the profiles of dir that share the (ssid, mode) key of file f
GroupOf(dir, f) ==
    {g \in DOMAIN dir : dir[g].kind = "profile" /\ ConfigKey(dir[g]) = ConfigKey(dir[f])}

\* C8: after deduplicateConfigs, of every (ssid, mode) group of profiles
\* that was stored before the call exactly one profile is left, unchanged, and
\* no profile of the group had a later createdDate.
C8_DedupeKeepsNewest ==
    lastOp = "dedupe" =>
        \A f \in DOMAIN stBefore :
            stBefore[f].kind = "profile" =>
                LET group == GroupOf(stBefore, f)
                    left == {g \in DOMAIN configDir :
                                configDir[g].kind = "profile"
                                /\ ConfigKey(configDir[g]) = ConfigKey(stBefore[f])}
                IN  /\ Cardinality(left) = 1
                    /\ \A r \in left :
                          /\ r \in group
                          /\ configDir[r] = stBefore[r]
                          /\ \A g \in group :
                                stBefore[g].createdDate <= stBefore[r].createdDate

\* three profiles of one key with different dates, the pointer file beside
\* them, were reduced to the latest
C8_Witness ==
    /\ lastOp = "dedupe"
    /\ DefaultConfigId \in DOMAIN stBefore
    /\ \E f \in DOMAIN stBefore :
          /\ stBefore[f].kind = "profile"
          /\ Cardinality(GroupOf(stBefore, f)) = 3
          /\ \E g \in GroupOf(stBefore, f) : stBefore[g].createdDate < stBefore[f].createdDate
          /\ f \in DOMAIN configDir
          /\ GroupOf(stBefore, f) \cap DOMAIN configDir = {f}

\* the wifi profiles of profiles that carry the SSID of n
OsGroupOf(profiles, n) ==
    {m \in DOMAIN profiles :
        profiles[m].type = "802-11-wireless" /\ profiles[m].ssid = profiles[n].ssid}

\* C9: after the OS pass every group of wifi profiles sharing an SSID that
\* had more than one member is down to one, a member with the latest
\* timestamp, and the profile of a singleton group is as it was.
C9_OsDedupeKeepsNewest ==
    osLast # "none" =>
        \A n \in DOMAIN osBefore :
            osBefore[n].type = "802-11-wireless" =>
                LET group == OsGroupOf(osBefore, n)
                    left == group \cap DOMAIN osProfiles
                IN  IF Cardinality(group) > 1
                    THEN /\ Cardinality(left) = 1
                         /\ \A r \in left : \A g \in group :
                               osBefore[g].timestamp <= osBefore[r].timestamp
                    ELSE n \in DOMAIN osProfiles /\ osProfiles[n] = osBefore[n]

----------------------------------------------------------------------------
(* Claims about importNetworkConfigs on any file *)

\* entry i of the array is an object whose save does not reject
Savable(i) ==
    /\ ~envelope.networks.items[i].isNull
    /\ envelope.networks.items[i].id \notin envUnwritable

\* C11: after an import of an envelope with a networks array, every entry
\* that can itself be saved is in the directory, wherever in the array an
\* entry that fails stands.
C11_BadEntryNeverBlocks ==
    (lastOp = "importFile" /\ envelope.kind = "object" /\ envelope.networks.kind = "array")
        => \A i \in 1..Len(envelope.networks.items) :
              Savable(i) =>
                  /\ envelope.networks.items[i].id \in DOMAIN configDir
                  /\ configDir[envelope.networks.items[i].id].ssid = "s1"

\* the file is not JSON, or what it parses to has no networks array
MalformedEnvelope ==
    \/ envelope.kind \in {"unparsable", "null"}
    \/ envelope.kind = "object" /\ envelope.networks.kind # "array"

\* C12: an import of a malformed envelope returns success=false with
\* imported 0 and leaves the directory as it was.
C12_MalformedEnvelopeHardFailure ==
    (lastOp = "importFile" /\ MalformedEnvelope)
        => /\ ~impResult.success
           /\ impResult.imported = 0
           /\ configDir = envBefore

\* an import has run on an object whose networks field is a string, on a
\* device that holds a profile
C12_Witness ==
    /\ lastOp = "importFile"
    /\ envelope.kind = "object"
    /\ envelope.networks.kind = "string"
    /\ envBefore # <<>>
    /\ ~impResult.success

----------------------------------------------------------------------------
(* Claims about the tunnel *)

\* C13: an import of a tunnel profile that lacks a mandatory field returns
\* failure and leaves every tunnel config file as it was.
C13_ImportRejectsIncomplete ==
    (wgLast.op = "import" /\ wgLast.lacks # {})
        => /\ ~wgLast.result.success
           /\ wgFiles = wgLast.before.files

\* the lowest last octet from 1 on that does not answer the ping
FirstFreeHost(reachable) == Min({i \in 1..254 : i \notin reachable})

\* C14: the address a successful setup selects is the first host address of
\* the block, scanning upward from .1, that does not answer the ping; with
\* 10.0.0.0/24 and .1 to .5 answering that is 10.0.0.6/24.
C14_FirstFreeHostAddress ==
    (wgLast.op = "setup" /\ wgLast.result.success)
        => wgLast.result.config.address = Cidr(Ip10(FirstFreeHost(wgLast.reachable)), 24)

\* C15: the object a failed setup returns names the stage that failed.
C15_FailureNamesStage ==
    (wgLast.op = "setup" /\ ~wgLast.result.success)
        => /\ "stage" \in DOMAIN wgLast.result
           /\ wgLast.result.stage = wgLast.stage

\* C16: after a failed setup the tunnel config files and the enabled and
\* active state of the service are what they were before the call.
C16_SetupFailsAtomically ==
    (wgLast.op = "setup" /\ ~wgLast.result.success)
        => /\ wgFiles = wgLast.before.files
           /\ wgEnabled = wgLast.before.enabled
           /\ wgActive = wgLast.before.active

\* C17: after a stop() that returned success the tunnel interface does not
\* exist.
C17_StopVerifiesRemoval ==
    (wgLast.op = "stop" /\ wgLast.result.success) => ~wgIface

\* C18: stop() on a tunnel that is already stopped (service inactive,
\* interface absent) returns success and changes nothing.
C18_StopIdempotent ==
    (wgLast.op = "stop" /\ ~wgLast.before.active /\ ~wgLast.before.iface)
        => /\ wgLast.result.success
           /\ Device = wgLast.before

\* stop() has run on a stopped tunnel whose config file is there and whose
\* service is enabled
C18_Witness ==
    /\ wgLast.op = "stop"
    /\ ~wgLast.before.active
    /\ ~wgLast.before.iface
    /\ wgLast.before.enabled
    /\ "wg0" \in DOMAIN wgLast.before.files
    /\ wgLast.result.success

\* C19: there is never more than one tunnel profile on the device, and it is
\* at the one fixed path, /etc/wireguard/wg0.conf.
C19_SingleTunnelProfile ==
    /\ Cardinality(DOMAIN wgFiles) <= 1
    /\ DOMAIN wgFiles \subseteq {"wg0"}

----------------------------------------------------------------------------
(* Claims about getStatus *)

RecognizedKeys == {KeyPublicKey, KeyEndpoint, KeyTransfer, KeyLatestHandshake}

\* everything after the first colon of the line, trimmed
FullValue(line) ==
    LET p == IndexOf(line, <<ChColon>>, 1)
    IN  Trim(SubSeq(line, p + 1, Len(line)))

\* the full value of the last line of the output that carries key
LastValue(lines, key) ==
    LET at == {i \in 1..Len(lines) : KeyOf(lines[i]) = key}
    IN  FullValue(lines[CHOOSE i \in at : \A j \in at : j <= i])

Recognized(lines) == SelectSeq(lines, LAMBDA l : KeyOf(l) \in RecognizedKeys)

\* C20: status is {active:false} when the probe prints nothing; otherwise it
\* is active, public key, endpoint and latest handshake carry the full value
\* of their line (the endpoint as host:port), and the lines with other keys
\* make no difference to the result.
C20_StatusParsesOutput ==
    (stPc = "done" /\ ~wgOutput.failed)
        => IF wgOutput.lines = <<>> THEN wgStatus = Inactive
           ELSE /\ wgStatus.active
                /\ \A f \in {<<KeyPublicKey, "publicKey">>, <<KeyEndpoint, "endpoint">>,
                             <<KeyLatestHandshake, "lastHandshake">>} :
                      (\E i \in 1..Len(wgOutput.lines) : KeyOf(wgOutput.lines[i]) = f[1])
                          => wgStatus[f[2]] = LastValue(wgOutput.lines, f[1])
                /\ (Recognized(wgOutput.lines) # <<>>
                       => wgStatus = getStatus(FALSE, Join(Recognized(wgOutput.lines),
                                                            ChNewline)))

----------------------------------------------------------------------------
(* Claims about activation in workhive.sh *)

\* C26: a run of --activate on the id of a saved client profile issues the
\* connect for that profile's SSID.
C26_ActivateConnects ==
    (shNet.activate \in DOMAIN shLast.before
        /\ shLast.before[shNet.activate].mode = "client")
        => shNet.connect = shLast.before[shNet.activate].ssid

----------------------------------------------------------------------------
(* Claims about listing and the default-config pointer *)

\* the ids a listing returned
ListedIds == {stListed[i].id : i \in 1..Len(stListed)}

\* C25: list() returns, whatever the directory holds, every stored profile
\* that can be read and parsed, as stored, and none of the files that cannot.
C25_ListSkipsUnreadable ==
    lastOp = "list" =>
        /\ \A f \in DOMAIN configDir :
              configDir[f].kind = "profile" =>
                  \E i \in 1..Len(stListed) :
                      stListed[i] = [id |-> f, config |-> configDir[f]]
        /\ \A f \in DOMAIN configDir : configDir[f].kind = "malformed" => f \notin ListedIds
        /\ ListedIds \subseteq DOMAIN configDir

\* a directory of one unparsable file and two profiles was listed
C25_Witness ==
    /\ lastOp = "list"
    /\ \E f \in DOMAIN configDir : configDir[f].kind = "malformed"
    /\ Cardinality({f \in DOMAIN configDir : configDir[f].kind = "profile"}) = 2
    /\ Len(stListed) = 2

\* C27: the id in default-config.json names a profile of the store.
C27_DefaultNamesProfile ==
    DefaultConfigId \in DOMAIN configDir =>
        /\ configDir[DefaultConfigId].ref \in DOMAIN configDir
        /\ configDir[configDir[DefaultConfigId].ref].kind = "profile"

\* C30: once a default has been set, no listing returns default-config.json
\* as an entry.
C30_PointerNeverListed ==
    \A i \in 1..Len(stListed) : stListed[i].config.kind # "pointer"

----------------------------------------------------------------------------
(* Claims about the result of importNetworkConfigs *)

\* C28: an import that reports imported 0 has written nothing: the directory
\* is as it was before the call.
C28_CountAgreesWithStore ==
    (lastOp = "importFile" /\ impResult.imported = 0) => configDir = envBefore

----------------------------------------------------------------------------
(* Claims about NetworkControl.getStatus *)

\* the rows of the device table by column: DEVICE, TYPE, STATE, CONNECTION
DeviceRows ==
    {r \in {SplitRuns(Trim(nsTable[i]), 2) : i \in 1..Len(nsTable)} : Len(r) >= 3}

\* a wifi device is listed; it is connected to a network
WirelessListed == \E r \in DeviceRows : r[2] = StrWifi
StationUp ==
    \E r \in DeviceRows :
        r[2] = StrWifi /\ r[3] = StrConnected /\ Len(r) > 3 /\ r[4] # StrDashes

\* an ethernet device is listed; its state is connected
WiredUp == \E r \in DeviceRows : r[2] = StrEthernet /\ r[3] = StrConnected

\* C21: when the device table could be read, the mode is the first of
\* station, wired, disconnected that the table supports.
C21_ModePriority ==
    (nsLast # "none" /\ "status" \notin nsFail)
        => nsStatus.mode = IF StationUp THEN StrWifi
                           ELSE IF WiredUp THEN StrEthernet
                           ELSE StrDisconnected

\* C22: with no wifi device listed, a connected ethernet device and every
\* command succeeding, the mode is ethernet, ipAddress and gateway are set and
\* ssid, signal, freq, bitrate and security are not.
C22_WiredHasNoWirelessFields ==
    (nsLast = "part_003" /\ nsFail = {} /\ ~WirelessListed /\ WiredUp)
        => /\ nsStatus.mode = StrEthernet
           /\ nsStatus.ipAddress # Absent
           /\ nsStatus.gateway # Absent
           /\ nsStatus.ssid = Absent
           /\ nsStatus.signal = Absent
           /\ nsStatus.freq = Absent
           /\ nsStatus.bitrate = Absent
           /\ nsStatus.security = Absent

\* C23: when exactly one command after the first fails, on a connected wifi
\* or ethernet device, the call reports the connection and every field the
\* other commands supply.
C23_ProbeFailureIsLocal ==
    (/\ nsLast = "part_003"
     /\ Cardinality(nsFail) = 1
     /\ "status" \notin nsFail
     /\ StationUp \/ (~WirelessListed /\ WiredUp))
        => /\ nsStatus.connected
           /\ "ip" \notin nsFail =>
                 nsStatus.ipAddress # Absent /\ nsStatus.gateway # Absent
           /\ "hwaddr" \notin nsFail => nsStatus.macAddress # Absent
           /\ (StationUp /\ "wifi" \notin nsFail) =>
                 /\ nsStatus.signal # Absent
                 /\ nsStatus.freq # Absent
                 /\ nsStatus.bitrate # Absent
                 /\ nsStatus.security # Absent

\* C24: a device table that lists neither a wifi device nor a connected
\* ethernet device makes the call return { connected: false, mode:
\* 'disconnected' } without running any command but the first.
C24_NoDeviceShortCircuits ==
    (/\ nsLast = "part_003"
     /\ "status" \notin nsFail
     /\ ~WirelessListed
     /\ ~WiredUp)
        => /\ nsStatus = Bare(FALSE, StrDisconnected)
           /\ nsProbes = {"status"}

\* C29: connected with mode ethernet is reported only when the table lists an
\* ethernet device whose state is connected.
C29_WiredNeedsConnectedState ==
    (nsLast = "part_003" /\ nsStatus.connected /\ nsStatus.mode = StrEthernet)
        => WiredUp

====
